---- MODULE Spec2Model ----
(***************************************************************************)
(* Model of skyline's gpu::Texture (gpu/texture/texture.cpp): the host     *)
(* image of a guest texture, its layout, its tracked FenceCycle, and the   *)
(* guest <-> host synchronisation paths.                                   *)
(*                                                                         *)
(* Caller threads run the Texture methods; a method is split only at its   *)
(* blocking points (WaitOnBacking, WaitOnFence).  The GPU timeline retires *)
(* submitted FenceCycles in submission order.                              *)
(***************************************************************************)
EXTENDS Integers, Sequences, FiniteSets, TLC

\* ------------------------------------------------------------------ bounds
MaxCycle == 3      \* FenceCycles that may be created in one behaviour
MaxImg == 3        \* host images that may be allocated in one behaviour
MaxCalls == 2      \* method calls a thread may make in one behaviour
MaxPage == 3       \* pages of the guest address space
MaxLayers == 2     \* array layers a view's subresource range may name

Tex == {1, 2}
Thread == {1, 2, 3}
Cyc == 1..MaxCycle
Img == 1..MaxImg

\* ------------------------------------------------------------ value spaces
Layouts == {"Undefined", "General", "TransferSrc", "TransferDst"}
Tilings == {"Optimal", "Linear"}
TileModes == {"Block", "Pitch", "Linear"}
Kinds == {"absent", "raw", "mem"}
Remaining == -1

\* texel data of a texture: three bytes, enough for two distinct layouts
DataA == <<1, 2, 3>>
DataB == <<3, 1, 2>>
DataC == <<2, 1, 3>>
Data == {DataA, DataB, DataC, <<2, 3, 1>>, <<1, 3, 2>>, <<3, 2, 1>>}

\* TextureView objects and what their constructor is given: the range's layer
\* count, the format override (0 = none) and the component mapping
View == {1, 2, 3}
LayerCounts == 1..MaxLayers
Mappings == {"identity", "swizzled"}
NoView == [backing |-> 0, layerCount |-> 0, format |-> 0, mapping |-> "none"]
\* a vk::ImageView handle: the texture whose cache owns it and a serial number
NoHandle == [t |-> 0, n |-> 0]
NoGot == [handle |-> NoHandle, image |-> 0, hit |-> FALSE]

\* guest addresses in half pages: page p is [PageSize * p, PageSize * (p + 1))
PageSize == 2
Pages == 1..MaxPage
MapFailed == -1
NoChunk == [state |-> "Unmapped", permission |-> "none"]
NoShmRet == [op |-> "none", ptr |-> 0, size |-> 0, how |-> "none"]

VARIABLES
    backing,      \* Texture::backing : [kind, img]
    layout,       \* Texture::layout
    cycle,        \* Texture::cycle (weak reference, 0 = empty)
    alive,        \* the Texture object exists
    held,         \* an external owner holds a shared_ptr to the Texture
    mutex,        \* Texture::mutex owner (0 = free)
    tiling, guest, dimensions, format, mipLevels,   \* immutable after construction
    variant,      \* the constructor that made the Texture (0 = none yet)
    cycles,       \* FenceCycle objects : [state, cmds, attached]
    queue,        \* submitted, not yet retired cycles in submission order
    imgData,      \* content of each host image
    imgLayout,    \* layout each host image is really in
    imgState,     \* "unalloc", "live", "swapped", "destroyed"
    guestMem,     \* content of the guest mapping of each texture
    pc, call,     \* per thread: position in the running method, its arguments
    budget,       \* calls a thread may still make
    ret,          \* per thread: how its last call ended
    guardLog,     \* per cycle: staging copy guards attached, guest writes they made
    sync,         \* per texture: what the last syncs read and are due to write
    views,        \* Texture::views : the cache of (description, handle) pairs
    viewObj,      \* the TextureView objects : [backing, layerCount, format, mapping]
    got,          \* per TextureView: what its last GetView() returned
    shmGuest,     \* KSharedMemory::guest : [ptr, size]
    chunks,       \* the process memory manager's chunk of each guest page
    shmRet        \* how the last KSharedMemory call ended

config == <<tiling, guest, dimensions, format, mipLevels, variant>>
texVars == <<backing, layout, cycle, alive, held, mutex>>
gpuVars == <<cycles, queue>>
memVars == <<imgData, imgLayout, imgState, guestMem>>
thrVars == <<pc, call, budget, ret>>
logVars == <<guardLog, sync>>
viewVars == <<views, viewObj, got>>
shmVars == <<shmGuest, chunks, shmRet>>
otherVars == <<viewVars, shmVars>>
vars == <<backing, layout, cycle, alive, held, mutex, tiling, guest, dimensions,
          format, mipLevels, variant, cycles, queue, imgData, imgLayout, imgState,
          guestMem, pc, call, budget, ret, guardLog, sync, views, viewObj, got,
          shmGuest, chunks, shmRet>>

\* ---------------------------------------------------------------- helpers
Min(S) == CHOOSE x \in S : \A y \in S : x <= y

NoCall == [op |-> "none", t |-> 0, src |-> 0, pCycle |-> 0, w |-> 0, arg |-> "none",
           staged |-> FALSE, data |-> <<>>, base |-> 0, levels |-> 0, ptr |-> "ok",
           slept |-> FALSE, again |-> FALSE, tracked |-> 0]
NoRet == [op |-> "none", t |-> 0, how |-> "none", absent |-> FALSE, slept |-> FALSE,
          arg |-> "none", again |-> FALSE]
NoSync == [valid |-> FALSE, snap |-> <<>>, pend |-> 0, phase |-> "none", orig |-> <<>>]

\* Texture::GetBacking() converted to bool
GetBacking(t) == backing[t].kind # "absent"

\* std::holds_alternative<memory::Image>(backing)
HoldsImage(t) == backing[t].kind = "mem"

\* a path choice that looks at the tiling alone
NeedsStagingByTiling(t) == tiling[t] = "Optimal"

\* the transfer path choice of SynchronizeHostImpl / SynchronizeGuest
NeedsStaging(t) == tiling[t] = "Optimal" \/ ~HoldsImage(t)

FreeCycles == {c \in Cyc : cycles[c].state = "free"}
FreeImgs == {i \in Img : imgState[i] = "unalloc"}
Incomplete(c) == cycles[c].state \in {"recording", "submitted"}

\* ------------------------------------------------------ tiling codec (copy.h)
CopyBlockLinearToLinear(d) == <<d[2], d[3], d[1]>>
CopyLinearToBlockLinear(d) == <<d[3], d[1], d[2]>>
CopyPitchLinearToLinear(d) == <<d[2], d[1], d[3]>>
CopyLinearToPitchLinear(d) == <<d[2], d[1], d[3]>>

\* ------------------------------------------------------------ GPU commands
Barrier(i, old, new) ==
    [op |-> "barrier", img |-> i, src |-> 0, old |-> old, new |-> new, data |-> <<>>, mip |-> 0]
BufferToImage(i, d) ==
    [op |-> "b2i", img |-> i, src |-> 0, old |-> "", new |-> "", data |-> d, mip |-> 0]
ImageToBuffer(i) ==
    [op |-> "i2b", img |-> i, src |-> 0, old |-> "", new |-> "", data |-> <<>>, mip |-> 0]
CopyImage(s, d, m) ==
    [op |-> "copy", img |-> d, src |-> s, old |-> "", new |-> "", data |-> <<>>, mip |-> m]

\* images a cycle's commands read or write
Touched(c) ==
    {cycles[c].cmds[k].img : k \in DOMAIN cycles[c].cmds}
    \cup {cycles[c].cmds[k].src : k \in {j \in DOMAIN cycles[c].cmds : cycles[c].cmds[j].op = "copy"}}

\* attachments of a cycle (FenceCycle::AttachObject(s))
AttTex(t) == [kind |-> "tex", t |-> t, cmd |-> 0]
AttStaging(k) == [kind |-> "staging", t |-> 0, cmd |-> k]
AttGuard(t, k) == [kind |-> "guard", t |-> t, cmd |-> k]

\* textures kept alive by an unretired cycle
Attached(t) ==
    \E c \in Cyc : Incomplete(c) /\ \E k \in DOMAIN cycles[c].attached :
        cycles[c].attached[k].t = t

\* a FenceCycle::Wait() that always returns at once
SignalledAlways(t) == TRUE

\* FenceCycle::Wait() on the tracked cycle would return at once
Signalled(t) == IF cycle[t] = 0 THEN TRUE ELSE cycles[cycle[t]].state = "done"

InUse(t) == \E th \in Thread : pc[th] # "idle" /\ (call[th].t = t \/ call[th].src = t)

\* ------------------------------------------------- conversions of the syncs
\* a dispatch that decodes Block guests with the pitch-linear routine
GuestToLinearAsPitch(t, d) ==
    CASE guest[t].mode = "Block" -> CopyPitchLinearToLinear(d)
      [] guest[t].mode = "Pitch" -> CopyPitchLinearToLinear(d)
      [] guest[t].mode = "Linear" -> d

\* SynchronizeHostImpl's dispatch on the guest tile mode (guest -> linear)
GuestToLinear(t, d) ==
    CASE guest[t].mode = "Block" -> CopyBlockLinearToLinear(d)
      [] guest[t].mode = "Pitch" -> CopyPitchLinearToLinear(d)
      [] guest[t].mode = "Linear" -> d

\* Texture::CopyToGuest(hostBuffer): the guest mapping and the host buffer
\* after the call, and whether guest memory was written.  With no mapping at
\* all, mappings[0] is out of bounds: the write lands outside the modelled
\* memory.
CopyToGuest(t, hostBuffer, g) ==
    IF guest[t].mappings = 0 THEN [guest |-> g, host |-> hostBuffer, wrote |-> FALSE]
    ELSE CASE guest[t].mode = "Block" ->
                [guest |-> CopyLinearToBlockLinear(hostBuffer), host |-> hostBuffer, wrote |-> TRUE]
           [] guest[t].mode = "Pitch" ->
                [guest |-> CopyLinearToPitchLinear(hostBuffer), host |-> hostBuffer, wrote |-> TRUE]
           [] guest[t].mode = "Linear" ->
                [guest |-> g, host |-> g, wrote |-> FALSE]

\* ------------------------------------------------------------ GPU execution
\* image contents and layouts after the first k commands of cmds
RECURSIVE Exec(_, _, _, _)
Exec(cmds, k, D, L) ==
    IF k = 0 THEN [d |-> D, l |-> L]
    ELSE LET p == Exec(cmds, k - 1, D, L)
             c == cmds[k]
         IN CASE c.op = "barrier" -> [d |-> p.d, l |-> [p.l EXCEPT ![c.img] = c.new]]
              [] c.op = "b2i" -> [d |-> [p.d EXCEPT ![c.img] = c.data], l |-> p.l]
              [] c.op = "i2b" -> p
              [] c.op = "copy" ->
                    IF c.mip = 0 THEN [d |-> [p.d EXCEPT ![c.img] = p.d[c.src]], l |-> p.l]
                    ELSE p

\* what the k-th command, an image-to-buffer copy, leaves in its staging buffer
StagingAfter(cmds, k, D, L) == Exec(cmds, k - 1, D, L).d[cmds[k].img]

\* TextureBufferCopy::~TextureBufferCopy for the first k attachments of a
\* retired cycle, in attachment order: guest memory, image contents and the
\* number of guest writes made by guards that own a staging buffer
RECURSIVE Release(_, _, _, _, _, _)
Release(att, k, cmds, G, D, S) ==
    IF k = 0 THEN [g |-> G, d |-> D, n |-> 0]
    ELSE LET p == Release(att, k - 1, cmds, G, D, S)
             a == att[k]
         IN IF a.kind # "guard" THEN p
            ELSE IF a.cmd > 0
                 THEN LET r == CopyToGuest(a.t, S[a.cmd], p.g[a.t])
                      IN [g |-> [p.g EXCEPT ![a.t] = r.guest], d |-> p.d,
                          n |-> p.n + (IF r.wrote THEN 1 ELSE 0)]
                 ELSE IF backing[a.t].kind = "mem"
                      THEN LET i == backing[a.t].img
                               r == CopyToGuest(a.t, p.d[i], p.g[a.t])
                           IN [g |-> [p.g EXCEPT ![a.t] = r.guest],
                               d |-> [p.d EXCEPT ![i] = r.host], n |-> p.n]
                      ELSE p

\* copy guards for texture t among the attachments att
GuardsOf(att, t) == Cardinality({k \in DOMAIN att : att[k].kind = "guard" /\ att[k].t = t})

\* image contents once the first k cycles of q have executed
RECURSIVE After(_, _, _)
After(q, k, D) ==
    IF k = 0 THEN D
    ELSE LET cmds == cycles[q[k]].cmds
         IN Exec(cmds, Len(cmds), After(q, k - 1, D), imgLayout).d

\* content of image i as the work recorded so far leaves it (pCycle is the
\* caller's own command buffer, 0 if none)
HostContent(i, pCycle) ==
    LET q == IF pCycle # 0 THEN Append(queue, pCycle) ELSE queue
    IN After(q, Len(q), imgData)[i]

\* the GPU retires the oldest submitted cycle: its commands have executed and
\* FenceCycle releases everything attached to it
Complete ==
    /\ queue # <<>>
    /\ LET c == Head(queue)
           cmds == cycles[c].cmds
           e == Exec(cmds, Len(cmds), imgData, imgLayout)
           S == [k \in DOMAIN cmds |-> StagingAfter(cmds, k, imgData, imgLayout)]
           r == Release(cycles[c].attached, Len(cycles[c].attached), cmds, guestMem, e.d, S)
       IN /\ cycles' = [cycles EXCEPT ![c] = [state |-> "done", cmds |-> <<>>, attached |-> <<>>]]
          /\ queue' = Tail(queue)
          /\ imgData' = r.d
          /\ imgLayout' = e.l
          /\ guestMem' = r.g
          /\ guardLog' = [guardLog EXCEPT ![c].wrote = @ + r.n]
          /\ sync' = [t \in Tex |->
                        LET n == GuardsOf(cycles[c].attached, t)
                        IN [sync[t] EXCEPT !.pend = @ - n,
                                           !.phase = IF n > 0 /\ @ = "h" THEN "none" ELSE @]]
    /\ UNCHANGED <<texVars, config, otherVars, imgState, thrVars>>

\* ------------------------------------------------------- calls and returns
\* Texture::lock(): the caller locks every texture it passes before the call
CanCall(th, S) ==
    /\ pc[th] = "idle"
    /\ budget[th] > 0
    /\ \A t \in S : alive[t] /\ held[t] /\ mutex[t] = 0

\* the call passed its entry checks and runs on at position p
Proceeds(th, c, p, S) ==
    /\ pc' = [pc EXCEPT ![th] = p]
    /\ call' = [call EXCEPT ![th] = c]
    /\ ret' = [ret EXCEPT ![th] = NoRet]
    /\ mutex' = [x \in Tex |-> IF x \in S THEN th ELSE mutex[x]]

\* the call ends (returns, or throws); Texture::unlock() by the caller
Returns(th, op, t, src, how) ==
    /\ pc' = [pc EXCEPT ![th] = "idle"]
    /\ call' = [call EXCEPT ![th] = NoCall]
    /\ ret' = [ret EXCEPT ![th] =
                 [op |-> op, t |-> t, how |-> how, slept |-> call[th].slept,
                  arg |-> call[th].arg, again |-> call[th].again,
                  absent |-> ~GetBacking(t) \/ (src # 0 /\ ~GetBacking(src))]]
    /\ mutex' = [x \in Tex |-> IF mutex[x] = th THEN 0 ELSE mutex[x]]

\* scheduler.Submit of new work under a fresh cycle c, or recording into the
\* caller's command buffer whose cycle is c
Record(c, fresh, cmds, att) ==
    IF fresh
    THEN /\ cycles' = [cycles EXCEPT ![c] =
                         [state |-> "submitted", cmds |-> cmds, attached |-> att]]
         /\ queue' = Append(queue, c)
    ELSE /\ cycles' = [cycles EXCEPT ![c].cmds = @ \o cmds, ![c].attached = @ \o att]
         /\ queue' = queue

\* ------------------------------------------------------------ the two waits
\* a WaitOnBacking that returns at once whatever the backing is
WaitOnBackingNoWait(th) ==
    /\ pc[th] = "wb"
    /\ pc' = [pc EXCEPT ![th] =
                IF call[th].op \in {"SynchronizeHost", "SynchronizeHostWithBuffer"}
                THEN "stage" ELSE "wf"]
    /\ UNCHANGED <<texVars, config, otherVars, gpuVars, memVars, call, budget, ret, logVars>>

\* Texture::WaitOnBacking: returns when the backing is present, else goes on
\* to wait on backingCondition; the caller's lock is held throughout
WaitOnBacking(th) ==
    /\ pc[th] = "wb"
    /\ LET w == call[th].w
       IN IF GetBacking(w)
          THEN /\ pc' = [pc EXCEPT ![th] =
                           IF call[th].op \in {"SynchronizeHost", "SynchronizeHostWithBuffer"}
                           THEN "stage" ELSE "wf"]
               /\ mutex' = mutex
               /\ call' = call
          ELSE /\ pc' = [pc EXCEPT ![th] = "wait"]
               /\ mutex' = mutex
               /\ call' = [call EXCEPT ![th].slept = TRUE]
    /\ UNCHANGED <<backing, layout, cycle, alive, held, config, otherVars, gpuVars, memVars,
                   budget, ret, logVars>>

\* backingCondition.wait(lock, ...) after the predicate was false: the mutex
\* is released and the thread sleeps, in one atomic step
ConditionWait(th) ==
    /\ pc[th] = "wait"
    /\ pc' = [pc EXCEPT ![th] = "sleep"]
    /\ mutex' = [mutex EXCEPT ![call[th].w] = 0]
    /\ UNCHANGED <<backing, layout, cycle, alive, held, config, otherVars, gpuVars, memVars,
                   call, budget, ret, logVars>>

\* a notified sleeper re-acquires the mutex and evaluates the predicate again
WakeUp(th) ==
    /\ pc[th] = "woken"
    /\ mutex[call[th].w] = 0
    /\ mutex' = [mutex EXCEPT ![call[th].w] = th]
    /\ pc' = [pc EXCEPT ![th] = "wb"]
    /\ UNCHANGED <<backing, layout, cycle, alive, held, config, otherVars, gpuVars, memVars,
                   call, budget, ret, logVars>>

\* a WaitOnFence that drops the tracked cycle without waiting for it
WaitOnFenceNoWait(th) ==
    /\ pc[th] = "wf"
    /\ LET w == call[th].w
           same == call[th].pCycle # 0 /\ cycle[w] = call[th].pCycle
       IN /\ cycle' = IF same THEN cycle ELSE [cycle EXCEPT ![w] = 0]
          /\ IF call[th].op = "CopyFrom" /\ w = call[th].t
             THEN /\ call' = [call EXCEPT ![th].w = call[th].src]
                  /\ pc' = [pc EXCEPT ![th] = "wb"]
             ELSE /\ call' = call
                  /\ pc' = [pc EXCEPT ![th] =
                              IF call[th].op = "SwapBacking" THEN "assign" ELSE "rec"]
    /\ UNCHANGED <<backing, layout, alive, held, mutex, config, otherVars, gpuVars, memVars,
                   budget, ret, logVars>>

\* Texture::WaitOnFence, and the callers' "if (cycle.lock() != pCycle)"
WaitOnFence(th) ==
    /\ pc[th] = "wf"
    /\ LET w == call[th].w
           same == call[th].pCycle # 0 /\ cycle[w] = call[th].pCycle
       IN /\ IF same THEN TRUE ELSE Signalled(w)
          /\ cycle' = IF same THEN cycle ELSE [cycle EXCEPT ![w] = 0]
          /\ IF call[th].op = "CopyFrom" /\ w = call[th].t
             THEN /\ call' = [call EXCEPT ![th].w = call[th].src]
                  /\ pc' = [pc EXCEPT ![th] = "wb"]
             ELSE /\ call' = call
                  /\ pc' = [pc EXCEPT ![th] =
                              IF call[th].op = "SwapBacking" THEN "assign" ELSE "rec"]
    /\ UNCHANGED <<backing, layout, alive, held, mutex, config, otherVars, gpuVars, memVars,
                   budget, ret, logVars>>

\* ---------------------------------------------------------- SynchronizeHost
\* bytes a read through an out-of-bounds mappings[0] may yield
GarbageData == {DataA, DataB}

\* SynchronizeHostImpl up to WaitOnBacking(): the three checks, then
\* guest->mappings[0], which is out of bounds when there is no mapping (the
\* build may crash there or carry a garbage pointer on)
SynchronizeHostImpl(th, t, pCycle, op) ==
    /\ CanCall(th, {t})
    /\ budget' = [budget EXCEPT ![th] = @ - 1]
    /\ LET c == [NoCall EXCEPT !.op = op, !.t = t, !.w = t, !.pCycle = pCycle,
                               !.tracked = cycle[t]]
       IN IF \/ ~guest[t].present
             \/ guest[t].dimensions # dimensions[t]
             \/ guest[t].mappings > 1
          THEN Returns(th, op, t, 0, "threw")
          ELSE IF guest[t].mappings = 0
               THEN \/ Returns(th, op, t, 0, "crashed")
                    \/ Proceeds(th, [c EXCEPT !.ptr = "garbage"], "wb", {t})
               ELSE Proceeds(th, c, "wb", {t})
    /\ UNCHANGED <<backing, layout, cycle, alive, held, config, otherVars,
                   gpuVars, memVars, logVars>>

SynchronizeHost(th, t) == SynchronizeHostImpl(th, t, 0, "SynchronizeHost")

SynchronizeHostWithBuffer(th, t, pCycle) ==
    /\ cycles[pCycle].state = "recording"
    /\ SynchronizeHostImpl(th, t, pCycle, "SynchronizeHostWithBuffer")

\* what the thread reads through its guest pointer
GuestRead(th, t) == IF call[th].ptr = "garbage" THEN GarbageData ELSE {guestMem[t]}

\* SynchronizeHostImpl, the path choice: with a staging buffer the guest bytes
\* are converted into it before the fence is waited on
SynchronizeHostStage(th) ==
    /\ pc[th] = "stage"
    /\ LET t == call[th].t
       IN IF NeedsStaging(t)
          THEN \E d \in GuestRead(th, t) :
                  /\ call' = [call EXCEPT ![th].staged = TRUE, ![th].data = GuestToLinear(t, d)]
                  /\ sync' = [sync EXCEPT ![t].orig = d]
          ELSE UNCHANGED <<call, sync>>
    /\ pc' = [pc EXCEPT ![th] = "wf"]
    /\ UNCHANGED <<texVars, config, otherVars, gpuVars, memVars, budget, ret, guardLog>>

\* Texture::CopyFromStagingBuffer: the commands it records and the layout it
\* leaves in Texture::layout; at is the position of the copy command
CopyFromStagingBuffer(i, d, lay) ==
    LET pre == IF lay # "TransferDst" THEN <<Barrier(i, lay, "TransferDst")>> ELSE <<>>
        lay1 == IF lay = "Undefined" THEN "TransferDst" ELSE lay
        post == IF lay1 # "TransferDst" THEN <<Barrier(i, "TransferDst", lay1)>> ELSE <<>>
    IN [cmds |-> pre \o <<BufferToImage(i, d)>> \o post, layout |-> lay1, at |-> Len(pre) + 1]

\* a SynchronizeHost that attaches the staging buffer but not the Texture
SynchronizeHostRecordNoAttach(th) ==
    /\ pc[th] = "rec"
    /\ call[th].op \in {"SynchronizeHost", "SynchronizeHostWithBuffer"}
    /\ LET t == call[th].t
           i == backing[t].img
           fresh == call[th].op = "SynchronizeHost"
       IN /\ IF call[th].staged
             THEN /\ fresh => FreeCycles # {}
                  /\ LET c == IF fresh THEN Min(FreeCycles) ELSE call[th].pCycle
                         off == IF fresh THEN 0 ELSE Len(cycles[c].cmds)
                         r == CopyFromStagingBuffer(i, call[th].data, layout[t])
                     IN /\ Record(c, fresh, r.cmds, <<AttStaging(off + r.at)>>)
                        /\ cycle' = [cycle EXCEPT ![t] = c]
                        /\ layout' = [layout EXCEPT ![t] = r.layout]
                  /\ imgData' = imgData
                  /\ sync' = [sync EXCEPT ![t].phase = "h"]
             ELSE /\ \E d \in GuestRead(th, t) :
                        /\ imgData' = [imgData EXCEPT ![i] = GuestToLinear(t, d)]
                        /\ sync' = [sync EXCEPT ![t].phase = "h", ![t].orig = d]
                  /\ UNCHANGED <<cycles, queue, cycle, layout>>
          /\ Returns(th, call[th].op, call[th].t, 0, "returned")
    /\ UNCHANGED <<backing, alive, held, config, otherVars, imgLayout, imgState, guestMem,
                   budget, guardLog>>

\* the rest of SynchronizeHost / SynchronizeHostWithBuffer after the waits
SynchronizeHostRecord(th) ==
    /\ pc[th] = "rec"
    /\ call[th].op \in {"SynchronizeHost", "SynchronizeHostWithBuffer"}
    /\ LET t == call[th].t
           i == backing[t].img
           fresh == call[th].op = "SynchronizeHost"
       IN /\ IF call[th].staged
             THEN /\ fresh => FreeCycles # {}
                  /\ LET c == IF fresh THEN Min(FreeCycles) ELSE call[th].pCycle
                         off == IF fresh THEN 0 ELSE Len(cycles[c].cmds)
                         r == CopyFromStagingBuffer(i, call[th].data, layout[t])
                     IN /\ Record(c, fresh, r.cmds, <<AttStaging(off + r.at), AttTex(t)>>)
                        /\ cycle' = [cycle EXCEPT ![t] = c]
                        /\ layout' = [layout EXCEPT ![t] = r.layout]
                  /\ imgData' = imgData
                  /\ sync' = [sync EXCEPT ![t].phase = "h"]
             ELSE /\ \E d \in GuestRead(th, t) :
                        /\ imgData' = [imgData EXCEPT ![i] = GuestToLinear(t, d)]
                        /\ sync' = [sync EXCEPT ![t].phase = "h", ![t].orig = d]
                  /\ UNCHANGED <<cycles, queue, cycle, layout>>
          /\ Returns(th, call[th].op, call[th].t, 0, "returned")
    /\ UNCHANGED <<backing, alive, held, config, otherVars, imgLayout, imgState, guestMem,
                   budget, guardLog>>

\* --------------------------------------------------------- SynchronizeGuest
\* an entry that does not look at the layout
SynchronizeGuestEntryNoSkip(th, t, pCycle, op) ==
    /\ CanCall(th, {t})
    /\ budget' = [budget EXCEPT ![th] = @ - 1]
    /\ LET c == [NoCall EXCEPT !.op = op, !.t = t, !.w = t, !.pCycle = pCycle,
                               !.tracked = cycle[t]]
       IN IF ~guest[t].present THEN Returns(th, op, t, 0, "threw")
          ELSE IF guest[t].mappings > 1 THEN Returns(th, op, t, 0, "threw")
          ELSE Proceeds(th, c, "wb", {t})
    /\ UNCHANGED <<backing, layout, cycle, alive, held, config, otherVars,
                   gpuVars, memVars, logVars>>

\* SynchronizeGuest / SynchronizeGuestWithBuffer up to WaitOnBacking()
SynchronizeGuestEntry(th, t, pCycle, op) ==
    /\ CanCall(th, {t})
    /\ budget' = [budget EXCEPT ![th] = @ - 1]
    /\ LET c == [NoCall EXCEPT !.op = op, !.t = t, !.w = t, !.pCycle = pCycle,
                               !.tracked = cycle[t]]
       IN IF ~guest[t].present THEN Returns(th, op, t, 0, "threw")
          ELSE IF layout[t] = "Undefined" THEN Returns(th, op, t, 0, "noop")
          ELSE IF guest[t].mappings > 1 THEN Returns(th, op, t, 0, "threw")
          ELSE Proceeds(th, c, "wb", {t})
    /\ UNCHANGED <<backing, layout, cycle, alive, held, config, otherVars,
                   gpuVars, memVars, logVars>>

SynchronizeGuest(th, t) == SynchronizeGuestEntry(th, t, 0, "SynchronizeGuest")

SynchronizeGuestWithBuffer(th, t, pCycle) ==
    /\ cycles[pCycle].state = "recording"
    /\ SynchronizeGuestEntry(th, t, pCycle, "SynchronizeGuestWithBuffer")

\* Texture::CopyIntoStagingBuffer, as CopyFromStagingBuffer
CopyIntoStagingBuffer(i, lay) ==
    LET pre == IF lay # "TransferSrc" THEN <<Barrier(i, lay, "TransferSrc")>> ELSE <<>>
        lay1 == IF lay = "Undefined" THEN "TransferSrc" ELSE lay
        post == IF lay1 # "TransferSrc" THEN <<Barrier(i, "TransferSrc", lay1)>> ELSE <<>>
    IN [cmds |-> pre \o <<ImageToBuffer(i)>> \o post, layout |-> lay1, at |-> Len(pre) + 1]

\* the rest of SynchronizeGuest / SynchronizeGuestWithBuffer after the waits
SynchronizeGuestRecord(th) ==
    /\ pc[th] = "rec"
    /\ call[th].op \in {"SynchronizeGuest", "SynchronizeGuestWithBuffer"}
    /\ LET t == call[th].t
           i == backing[t].img
           fresh == call[th].op = "SynchronizeGuest"
       IN /\ IF NeedsStaging(t)
             THEN /\ fresh => FreeCycles # {}
                  /\ LET c == IF fresh THEN Min(FreeCycles) ELSE call[th].pCycle
                         off == IF fresh THEN 0 ELSE Len(cycles[c].cmds)
                         r == CopyIntoStagingBuffer(i, layout[t])
                     IN /\ Record(c, fresh, r.cmds, <<AttGuard(t, off + r.at)>>)
                        /\ cycle' = [cycle EXCEPT ![t] = c]
                        /\ layout' = [layout EXCEPT ![t] = r.layout]
                        /\ guardLog' = [guardLog EXCEPT ![c].made = @ + 1]
                  /\ sync' = [sync EXCEPT ![t].valid = TRUE, ![t].pend = @ + 1,
                                          ![t].snap = HostContent(i, call[th].pCycle),
                                          ![t].phase = IF @ = "h" THEN "hg" ELSE @]
                  /\ UNCHANGED <<imgData, guestMem>>
             ELSE /\ LET r == CopyToGuest(t, imgData[i], guestMem[t])
                     IN /\ guestMem' = [guestMem EXCEPT ![t] = r.guest]
                        /\ imgData' = [imgData EXCEPT ![i] = r.host]
                  /\ IF fresh
                     THEN UNCHANGED <<cycles, queue, cycle>>
                     ELSE /\ Record(call[th].pCycle, FALSE, <<>>, <<AttGuard(t, 0)>>)
                          /\ cycle' = [cycle EXCEPT ![t] = call[th].pCycle]
                  /\ sync' = [sync EXCEPT ![t].valid = TRUE,
                                          ![t].pend = IF fresh THEN @ ELSE @ + 1,
                                          ![t].snap = HostContent(i, call[th].pCycle),
                                          ![t].phase = IF @ = "h" THEN "hg" ELSE @]
                  /\ UNCHANGED <<layout, guardLog>>
          /\ Returns(th, call[th].op, call[th].t, 0, "returned")
    /\ UNCHANGED <<backing, alive, held, config, otherVars, imgLayout, imgState, budget>>

\* ------------------------------------------------------------------ CopyFrom
\* Texture::CopyFrom up to the first WaitOnBacking(); the caller holds both
\* textures
CopyFrom(th, t, src, base, levels) ==
    /\ t # src
    /\ CanCall(th, {t, src})
    /\ budget' = [budget EXCEPT ![th] = @ - 1]
    /\ Proceeds(th, [NoCall EXCEPT !.op = "CopyFrom", !.t = t, !.src = src, !.w = t,
                                   !.base = base, !.levels = levels], "wb", {t, src})
    /\ UNCHANGED <<backing, layout, cycle, alive, held, config, otherVars,
                   gpuVars, memVars, logVars>>

\* the commands of CopyFrom's submission, and the destination layout it
\* leaves in Texture::layout
CopyFromCommands(t, src, base, levels) ==
    LET s == backing[src].img
        d == backing[t].img
        sPre == IF layout[src] # "TransferSrc"
                THEN <<Barrier(s, layout[src], "TransferSrc")>> ELSE <<>>
        dPre == IF layout[t] # "TransferDst"
                THEN <<Barrier(d, layout[t], "TransferDst")>> ELSE <<>>
        lay1 == IF layout[t] = "Undefined" THEN "TransferDst" ELSE layout[t]
        bound == IF levels = Remaining THEN mipLevels[t] - base ELSE levels
        n == IF bound > base THEN bound - base ELSE 0
        copies == [k \in 1..n |-> CopyImage(s, d, base + k - 1)]
        dPost == IF lay1 # "TransferDst"
                 THEN <<Barrier(d, "TransferDst", lay1)>> ELSE <<>>
        sPost == IF lay1 # "TransferSrc"
                 THEN <<Barrier(s, "TransferSrc", layout[src])>> ELSE <<>>
    IN [cmds |-> sPre \o dPre \o copies \o dPost \o sPost, layout |-> lay1]

\* a CopyFrom that moves the destination out of the undefined layout before
\* it checks the source
CopyFromRecordLateCheck(th) ==
    /\ pc[th] = "rec"
    /\ call[th].op = "CopyFrom"
    /\ LET t == call[th].t
           src == call[th].src
       IN IF \/ layout[src] = "Undefined"
             \/ dimensions[src] # dimensions[t]
             \/ format[src] # format[t]
          THEN /\ Returns(th, "CopyFrom", t, src, "threw")
               /\ layout' = [layout EXCEPT ![t] = IF @ = "Undefined" THEN "TransferDst" ELSE @]
               /\ UNCHANGED <<cycles, queue, cycle, sync>>
          ELSE /\ FreeCycles # {}
               /\ LET c == Min(FreeCycles)
                      r == CopyFromCommands(t, src, call[th].base, call[th].levels)
                  IN /\ Record(c, TRUE, r.cmds, <<AttTex(src), AttTex(t)>>)
                     /\ cycle' = [cycle EXCEPT ![t] = c]
                     /\ layout' = [layout EXCEPT ![t] = r.layout]
               /\ sync' = [sync EXCEPT ![t].phase = "none"]
               /\ Returns(th, "CopyFrom", t, src, "returned")
    /\ UNCHANGED <<backing, alive, held, config, otherVars, memVars, budget, guardLog>>

\* CopyFrom after its four waits: the checks, the submission, the attachments
CopyFromRecord(th) ==
    /\ pc[th] = "rec"
    /\ call[th].op = "CopyFrom"
    /\ LET t == call[th].t
           src == call[th].src
       IN IF \/ layout[src] = "Undefined"
             \/ dimensions[src] # dimensions[t]
             \/ format[src] # format[t]
          THEN /\ Returns(th, "CopyFrom", t, src, "threw")
               /\ UNCHANGED <<cycles, queue, cycle, layout, sync>>
          ELSE /\ FreeCycles # {}
               /\ LET c == Min(FreeCycles)
                      r == CopyFromCommands(t, src, call[th].base, call[th].levels)
                  IN /\ Record(c, TRUE, r.cmds, <<AttTex(src), AttTex(t)>>)
                     /\ cycle' = [cycle EXCEPT ![t] = c]
                     /\ layout' = [layout EXCEPT ![t] = r.layout]
               /\ sync' = [sync EXCEPT ![t].phase = "none"]
               /\ Returns(th, "CopyFrom", t, src, "returned")
    /\ UNCHANGED <<backing, alive, held, config, otherVars, memVars, budget, guardLog>>

\* ---------------------------------------------------------- TransitionLayout
\* TransitionLayout up to WaitOnBacking(); the call remembers whether the
\* thread's previous call was the same transition of the same texture
TransitionLayout(th, t, pLayout) ==
    /\ CanCall(th, {t})
    /\ budget' = [budget EXCEPT ![th] = @ - 1]
    /\ Proceeds(th, [NoCall EXCEPT !.op = "TransitionLayout", !.t = t, !.w = t,
                                   !.arg = pLayout,
                                   !.again = /\ ret[th].op = "TransitionLayout"
                                             /\ ret[th].how = "returned"
                                             /\ ret[th].t = t /\ ret[th].arg = pLayout],
                "wb", {t})
    /\ UNCHANGED <<backing, layout, cycle, alive, held, config, otherVars,
                   gpuVars, memVars, logVars>>

\* a transition that submits its barrier whatever the layout is
TransitionLayoutRecordAlways(th) ==
    /\ pc[th] = "rec"
    /\ call[th].op = "TransitionLayout"
    /\ LET t == call[th].t
           pLayout == call[th].arg
       IN /\ FreeCycles # {}
          /\ LET c == Min(FreeCycles)
             IN /\ Record(c, TRUE, <<Barrier(backing[t].img, layout[t], pLayout)>>, <<>>)
                /\ cycle' = [cycle EXCEPT ![t] = c]
          /\ layout' = [layout EXCEPT ![t] = pLayout]
    /\ Returns(th, "TransitionLayout", call[th].t, 0, "returned")
    /\ UNCHANGED <<backing, alive, held, config, otherVars, memVars, budget, logVars>>

\* TransitionLayout after its waits: one barrier under a fresh cycle, which
\* is remembered in Texture::cycle and gets no attachment
TransitionLayoutRecord(th) ==
    /\ pc[th] = "rec"
    /\ call[th].op = "TransitionLayout"
    /\ LET t == call[th].t
           pLayout == call[th].arg
       IN IF layout[t] # pLayout
          THEN /\ FreeCycles # {}
               /\ LET c == Min(FreeCycles)
                  IN /\ Record(c, TRUE, <<Barrier(backing[t].img, layout[t], pLayout)>>, <<>>)
                     /\ cycle' = [cycle EXCEPT ![t] = c]
               /\ layout' = [layout EXCEPT ![t] = pLayout]
          ELSE UNCHANGED <<cycles, queue, cycle, layout>>
    /\ Returns(th, "TransitionLayout", call[th].t, 0, "returned")
    /\ UNCHANGED <<backing, alive, held, config, otherVars, memVars, budget, logVars>>

\* --------------------------------------------------------------- SwapBacking
\* Texture::SwapBacking up to WaitOnFence(); kind "absent" is an empty backing
SwapBacking(th, t, kind, pLayout, d) ==
    /\ CanCall(th, {t})
    /\ kind # "absent" => FreeImgs # {}
    /\ budget' = [budget EXCEPT ![th] = @ - 1]
    /\ Proceeds(th, [NoCall EXCEPT !.op = "SwapBacking", !.t = t, !.w = t,
                                   !.arg = pLayout, !.ptr = kind, !.data = d], "wf", {t})
    /\ UNCHANGED <<backing, layout, cycle, alive, held, config, otherVars,
                   gpuVars, memVars, logVars>>

\* backing = std::move(pBacking); layout = pLayout: the old image is released
SwapBackingAssign(th) ==
    /\ pc[th] = "assign"
    /\ call[th].ptr # "absent" => FreeImgs # {}
    /\ LET t == call[th].t
           old == backing[t].img
           kind == call[th].ptr
           new == IF kind = "absent" THEN 0 ELSE Min(FreeImgs)
           st == IF old # 0 THEN [imgState EXCEPT ![old] = "swapped"] ELSE imgState
       IN /\ backing' = [backing EXCEPT ![t] = [kind |-> kind, img |-> new]]
          /\ layout' = [layout EXCEPT ![t] = call[th].arg]
          /\ imgState' = IF new # 0 THEN [st EXCEPT ![new] = "live"] ELSE st
          /\ imgData' = IF new # 0 THEN [imgData EXCEPT ![new] = call[th].data] ELSE imgData
          /\ imgLayout' = IF new # 0 THEN [imgLayout EXCEPT ![new] = call[th].arg] ELSE imgLayout
    /\ pc' = [pc EXCEPT ![th] = "notify"]
    /\ sync' = [sync EXCEPT ![call[th].t].phase = "none"]
    /\ UNCHANGED <<cycle, alive, held, mutex, config, otherVars, gpuVars, guestMem, call, budget,
                   ret, guardLog>>

\* a SwapBacking that calls notify_one(): a single sleeper is woken
SwapBackingNotifyOne(th) ==
    /\ pc[th] = "notify"
    /\ LET t == call[th].t
           sleepers == {x \in Thread : pc[x] = "sleep" /\ call[x].w = t}
           woken == IF GetBacking(t) /\ sleepers # {} THEN {Min(sleepers)} ELSE {}
       IN /\ pc' = [x \in Thread |-> IF x = th THEN "idle"
                                     ELSE IF x \in woken THEN "woken" ELSE pc[x]]
          /\ call' = [call EXCEPT ![th] = NoCall]
          /\ ret' = [ret EXCEPT ![th] = [op |-> "SwapBacking", t |-> t, how |-> "returned",
                                         absent |-> ~GetBacking(t), slept |-> FALSE]]
          /\ mutex' = [x \in Tex |-> IF mutex[x] = th THEN 0 ELSE mutex[x]]
    /\ UNCHANGED <<backing, layout, cycle, alive, held, config, otherVars, gpuVars, memVars,
                   budget, logVars>>

\* if (GetBacking()) backingCondition.notify_all(): every sleeper on this
\* texture is woken
SwapBackingNotify(th) ==
    /\ pc[th] = "notify"
    /\ LET t == call[th].t
           woken == IF GetBacking(t)
                    THEN {x \in Thread : pc[x] = "sleep" /\ call[x].w = t} ELSE {}
       IN /\ pc' = [x \in Thread |-> IF x = th THEN "idle"
                                     ELSE IF x \in woken THEN "woken" ELSE pc[x]]
          /\ call' = [call EXCEPT ![th] = NoCall]
          /\ ret' = [ret EXCEPT ![th] = [op |-> "SwapBacking", t |-> t, how |-> "returned",
                                         absent |-> ~GetBacking(t), slept |-> FALSE]]
          /\ mutex' = [x \in Tex |-> IF mutex[x] = th THEN 0 ELSE mutex[x]]
    /\ UNCHANGED <<backing, layout, cycle, alive, held, config, otherVars, gpuVars, memVars,
                   budget, logVars>>

\* ------------------------------------------------- caller's command buffers
\* a caller starts a command buffer of its own, with its FenceCycle, to pass
\* to the WithBuffer overloads
BeginBuffer ==
    /\ FreeCycles # {}
    /\ \A c \in Cyc : cycles[c].state # "recording"
    /\ cycles' = [cycles EXCEPT ![Min(FreeCycles)].state = "recording"]
    /\ UNCHANGED <<texVars, config, otherVars, queue, memVars, thrVars, logVars>>

\* the caller submits its command buffer, once something was recorded into
\* it or attached to its cycle
SubmitBuffer(c) ==
    /\ cycles[c].state = "recording"
    /\ cycles[c].cmds # <<>> \/ cycles[c].attached # <<>>
    /\ \A th \in Thread : call[th].pCycle # c
    /\ cycles' = [cycles EXCEPT ![c].state = "submitted"]
    /\ queue' = Append(queue, c)
    /\ UNCHANGED <<texVars, config, otherVars, memVars, thrVars, logVars>>

\* ------------------------------------------------------------- destruction
\* a TextureView holds a shared_ptr to texture t
Viewed(t) == \E v \in View : viewObj[v].backing = t

\* the external owner drops its shared_ptr
ReleaseOwner(t) ==
    /\ alive[t] /\ held[t] /\ ~InUse(t)
    /\ held' = [held EXCEPT ![t] = FALSE]
    /\ UNCHANGED <<backing, layout, cycle, alive, mutex, config, otherVars, gpuVars, memVars,
                   thrVars, logVars>>

\* a destructor that releases the backing without WaitOnFence()
DestroyNoWait(t) ==
    /\ alive[t] /\ ~held[t] /\ ~Attached(t) /\ ~InUse(t) /\ ~Viewed(t)
    /\ alive' = [alive EXCEPT ![t] = FALSE]
    /\ cycle' = [cycle EXCEPT ![t] = 0]
    /\ imgState' = IF backing[t].img # 0
                   THEN [imgState EXCEPT ![backing[t].img] = "destroyed"] ELSE imgState
    /\ views' = [views EXCEPT ![t] = <<>>]
    /\ UNCHANGED <<backing, layout, held, mutex, config, gpuVars, imgData, imgLayout,
                   guestMem, thrVars, logVars, viewObj, got, shmVars>>

\* Texture::~Texture once the last owner is gone: WaitOnFence(), then the
\* members, the backing and the view cache among them, are released
Destroy(t) ==
    /\ alive[t] /\ ~held[t] /\ ~Attached(t) /\ ~InUse(t) /\ ~Viewed(t)
    /\ Signalled(t)
    /\ alive' = [alive EXCEPT ![t] = FALSE]
    /\ cycle' = [cycle EXCEPT ![t] = 0]
    /\ imgState' = IF backing[t].img # 0
                   THEN [imgState EXCEPT ![backing[t].img] = "destroyed"] ELSE imgState
    /\ views' = [views EXCEPT ![t] = <<>>]
    /\ UNCHANGED <<backing, layout, held, mutex, config, gpuVars, imgData, imgLayout,
                   guestMem, thrVars, logVars, viewObj, got, shmVars>>

\* --------------------------------------------------------- initial states
\* guest descriptors
GuestOf(mode, dims, n) ==
    [present |-> TRUE, dimensions |-> dims, mappings |-> n, mode |-> mode, format |-> 1]
NoGuest == [present |-> FALSE, dimensions |-> 0, mappings |-> 0, mode |-> "Linear", format |-> 0]

\* a texture as its constructor leaves it: with a guest and an empty backing
\* (the guest constructor with no backing skips its SynchronizeHost), or host
\* only with the backing and layout it was given
Deferred(g, til) ==
    [guest |-> g, tiling |-> til, dimensions |-> 1, format |-> 1, mipLevels |-> 2,
     kind |-> "absent", layout |-> "Undefined", alive |-> TRUE, variant |-> 1]
HostOnly(kind, lay, fmt) ==
    [guest |-> NoGuest, tiling |-> "Optimal", dimensions |-> 1, format |-> fmt,
     mipLevels |-> 2, kind |-> kind, layout |-> lay, alive |-> TRUE, variant |-> 2]
NoTexture ==
    [guest |-> NoGuest, tiling |-> "Optimal", dimensions |-> 1, format |-> 1,
     mipLevels |-> 2, kind |-> "absent", layout |-> "Undefined", alive |-> FALSE,
     variant |-> 0]

\* the state in which the textures are as prof says, thread th may make n[th]
\* calls, and nothing was submitted yet
InitTextures(prof, n) ==
    /\ backing = [t \in Tex |-> [kind |-> prof[t].kind,
                                 img |-> IF prof[t].kind = "absent" THEN 0 ELSE t]]
    /\ layout = [t \in Tex |-> prof[t].layout]
    /\ cycle = [t \in Tex |-> 0]
    /\ alive = [t \in Tex |-> prof[t].alive]
    /\ held = [t \in Tex |-> prof[t].alive]
    /\ mutex = [t \in Tex |-> 0]
    /\ tiling = [t \in Tex |-> prof[t].tiling]
    /\ guest = [t \in Tex |-> prof[t].guest]
    /\ dimensions = [t \in Tex |-> prof[t].dimensions]
    /\ format = [t \in Tex |-> prof[t].format]
    /\ mipLevels = [t \in Tex |-> prof[t].mipLevels]
    /\ variant = [t \in Tex |-> prof[t].variant]
    /\ cycles = [c \in Cyc |-> [state |-> "free", cmds |-> <<>>, attached |-> <<>>]]
    /\ queue = <<>>
    /\ imgData = [i \in 0..MaxImg |-> DataB]
    /\ imgLayout = [i \in 0..MaxImg |->
                      IF i \in Tex /\ prof[i].kind # "absent" THEN prof[i].layout
                      ELSE "Undefined"]
    /\ imgState = [i \in 0..MaxImg |->
                     IF i \in Tex /\ prof[i].kind # "absent" THEN "live" ELSE "unalloc"]
    /\ guestMem = [t \in Tex |-> DataA]
    /\ pc = [th \in Thread |-> "idle"]
    /\ call = [th \in Thread |-> NoCall]
    /\ budget = n
    /\ ret = [th \in Thread |-> NoRet]
    /\ guardLog = [c \in Cyc |-> [made |-> 0, wrote |-> 0]]
    /\ sync = [t \in Tex |-> NoSync]

\* no TextureView was made and every view cache is empty
NoViews ==
    /\ views = [t \in Tex |-> <<>>]
    /\ viewObj = [v \in View |-> NoView]
    /\ got = [v \in View |-> NoGot]

\* KSharedMemory::KSharedMemory: no guest mapping, the guest pages unmapped
NoSharedMemory ==
    /\ shmGuest = [ptr |-> 0, size |-> 0]
    /\ chunks = [p \in Pages |-> NoChunk]
    /\ shmRet = NoShmRet

InitFrom(prof, n) == InitTextures(prof, n) /\ NoViews /\ NoSharedMemory

\* budgets: thread 1 is the caller, thread 2 the pool thread that attaches
\* backings, thread 3 a second caller used where two waiters are needed
Budget(a, b, c) == [th \in Thread |-> IF th = 1 THEN a ELSE IF th = 2 THEN b ELSE c]

\* two textures: the first a pooled guest texture whose backing arrives later
\* or a host-only texture, the second a host-only render target
Init ==
    \E first \in {Deferred(GuestOf("Block", 1, 1), "Optimal"),
                  HostOnly("raw", "General", 1)} :
        InitFrom([t \in Tex |-> IF t = 1 THEN first ELSE HostOnly("raw", "General", 1)],
                 Budget(MaxCalls, 1, 0))

\* the steps of running calls, the GPU and the owners
Run ==
    \/ \E th \in Thread : WaitOnBacking(th)
    \/ \E th \in Thread : ConditionWait(th)
    \/ \E th \in Thread : WakeUp(th)
    \/ \E th \in Thread : WaitOnFence(th)
    \/ \E th \in Thread : SwapBackingAssign(th)
    \/ \E th \in Thread : SwapBackingNotify(th)
    \/ Complete

Next ==
    \/ Run
    \/ \E th \in Thread : SynchronizeHostStage(th)
    \/ \E th \in Thread : SynchronizeHostRecord(th)
    \/ \E th \in Thread : SynchronizeGuestRecord(th)
    \/ \E th \in Thread : CopyFromRecord(th)
    \/ \E th \in Thread : TransitionLayoutRecord(th)
    \/ \E t \in Tex : SynchronizeHost(1, t)
    \/ \E t \in Tex : SynchronizeGuest(1, t)
    \/ \E t \in Tex, c \in Cyc : SynchronizeHostWithBuffer(1, t, c)
    \/ \E t \in Tex, c \in Cyc : SynchronizeGuestWithBuffer(1, t, c)
    \/ \E t \in Tex, s \in Tex : CopyFrom(1, t, s, 0, Remaining)
    \/ \E t \in Tex : TransitionLayout(1, t, "TransferSrc")
    \/ \E t \in Tex, k \in {"absent", "raw"} :
          SwapBacking(2, t, k, "General", DataC)
    \/ BeginBuffer
    \/ \E c \in Cyc : SubmitBuffer(c)
    \/ \E t \in Tex : ReleaseOwner(t)
    \/ \E t \in Tex : Destroy(t)

Spec == Init /\ [][Next]_vars

TypeOK ==
    /\ \A t \in Tex : backing[t].kind \in Kinds /\ layout[t] \in Layouts \cup {"Preinitialized"}
    /\ \A th \in Thread : pc[th] \in {"idle", "wb", "wait", "sleep", "woken", "wf", "stage",
                                      "rec", "assign", "notify"}

\* ------------------------------------------------ waiters and the pool thread
\* one pooled texture without backing; threads 1 and 3 call into it, thread 2
\* attaches (and may take away) its backing
InitWake ==
    InitFrom([t \in Tex |-> IF t = 1 THEN Deferred(GuestOf("Block", 1, 1), "Optimal")
                            ELSE NoTexture],
             Budget(1, MaxCalls, 1))

\* the steps of thread th's running call
StepWake(th) ==
    \/ WaitOnBacking(th)
    \/ ConditionWait(th)
    \/ WakeUp(th)
    \/ WaitOnFence(th)
    \/ TransitionLayoutRecord(th)
    \/ SwapBackingAssign(th)
    \/ SwapBackingNotify(th)

NextWake ==
    \/ \E th \in Thread : StepWake(th)
    \/ \E th \in {1, 3}, l \in {"General", "TransferSrc"} : TransitionLayout(th, 1, l)
    \/ \E k \in {"absent", "raw", "mem"}, l \in {"Undefined", "General"} :
          SwapBacking(2, 1, k, l, DataC)
    \/ Complete

\* every thread that can take a step of its call eventually does, and the GPU
\* eventually retires what was submitted
SpecWake ==
    /\ InitWake /\ [][NextWake]_vars
    /\ \A th \in Thread : WF_vars(StepWake(th))
    /\ WF_vars(Complete)

\* ===================================================================== claims
SyncOps == {"SynchronizeHost", "SynchronizeHostWithBuffer", "SynchronizeGuest",
            "SynchronizeGuestWithBuffer", "CopyFrom", "TransitionLayout"}

\* C1: single-outstanding-cycle discipline: when a dedicated submission that
\* reads or writes a texture's image is made, no cycle submitted earlier that
\* reads or writes the same image is still incomplete, the image of a CopyFrom
\* source included.
C1_SingleOutstandingCycle ==
    [][\A c \in Cyc :
          (cycles[c].state = "free" /\ cycles'[c].state = "submitted")
          => \A c2 \in Cyc \ {c} :
                cycles[c2].state = "submitted"
                => (Touched(c)' \cap Touched(c2)) \ {0} = {}]_vars

\* C2: SwapBacking never releases an image that an incomplete cycle still
\* references, also when the texture was the source of a CopyFrom.
C2_SwapReleasesIdleImage ==
    \A i \in Img : imgState[i] = "swapped"
        => \A c \in Cyc : Incomplete(c) => i \notin Touched(c)

\* C3: destruction releases a texture's backing only when no incomplete cycle
\* references it: every incomplete cycle that touches a live texture's image
\* either has the texture attached or is the texture's tracked cycle, and no
\* destroyed image is referenced by an incomplete cycle.
C3_DestructionSafety ==
    /\ \A i \in Img : imgState[i] = "destroyed"
          => \A c \in Cyc : Incomplete(c) => i \notin Touched(c)
    /\ \A t \in Tex, c \in Cyc :
          (alive[t] /\ GetBacking(t) /\ Incomplete(c) /\ backing[t].img \in Touched(c))
          => (cycle[t] = c \/ \E k \in DOMAIN cycles[c].attached :
                                 cycles[c].attached[k].kind \in {"tex", "guard"}
                                 /\ cycles[c].attached[k].t = t)

\* C3 witness: a texture whose last owner is gone and which no cycle keeps
\* alive, with its tracked cycle still incomplete: the destructor is blocked
\* in WaitOnFence and the backing is still there.
C3_Witness ==
    \E t \in Tex : /\ alive[t] /\ ~held[t] /\ ~Attached(t) /\ GetBacking(t)
                   /\ cycle[t] # 0 /\ ~Signalled(t)
                   /\ backing[t].img \in Touched(cycle[t])
                   /\ imgState[backing[t].img] = "live"

\* C4 as claimed: no sync, copy or transition call on a texture returns while
\* the texture's backing is absent.
C4_NoReturnWithoutBacking ==
    \A th \in Thread :
        (ret[th].op \in SyncOps /\ ret[th].how \in {"returned", "noop"}) => ~ret[th].absent

\* textures whose backing a running call has already waited for
WaitedFor(th) ==
    IF call[th].op = "CopyFrom" /\ call[th].w = call[th].src
    THEN IF pc[th] \in {"wf", "rec"} THEN {call[th].t, call[th].src} ELSE {call[th].t}
    ELSE IF pc[th] \in {"stage", "wf", "rec"} THEN {call[th].t} ELSE {}

\* C4 (amended): a sync, copy or transition call that got past its entry
\* checks (and is not SynchronizeGuest's undefined-layout no-op) does not
\* return, record a command or touch memory while the backing is absent: it
\* is past WaitOnBacking only with a present backing, it returns only with a
\* present backing, and the commands it records name the image attached then.
C4_BlocksUntilBacking ==
    /\ [](\A th \in Thread :
            /\ (ret[th].op \in SyncOps /\ ret[th].how = "returned") => ~ret[th].absent
            /\ (ret[th].op = "CopyFrom" /\ ret[th].how = "threw") => ~ret[th].absent
            /\ call[th].op \in SyncOps => \A t \in WaitedFor(th) : GetBacking(t))
    /\ [][\A th \in Thread :
            (pc[th] = "rec" /\ pc'[th] = "idle" /\ call[th].op \in SyncOps)
            => \A c \in Cyc :
                  (Touched(c)' \ Touched(c)) \subseteq
                      ({backing[call[th].t].img}
                       \cup (IF call[th].src # 0 THEN {backing[call[th].src].img} ELSE {}))
                      \ {0}]_vars

\* C4 witness: a call slept in WaitOnBacking, was woken by SwapBacking and
\* returned after recording a command on the image attached meanwhile.
C4_Witness ==
    \E th \in Thread :
        /\ ret[th].op \in SyncOps /\ ret[th].slept /\ ret[th].how = "returned"
        /\ \E c \in Cyc : Incomplete(c) /\ backing[ret[th].t].img \in Touched(c)

\* thread th is inside WaitOnBacking
InWaitOnBacking(th) == pc[th] \in {"wb", "wait", "sleep", "woken"}

\* C5: no lost wake-up: a thread inside WaitOnBacking does not stay there
\* forever while the backing is present; it returns from the wait (unless the
\* backing is taken away again first).
C5_NoLostWakeup ==
    \A th \in Thread :
        (InWaitOnBacking(th) /\ GetBacking(call[th].w))
        ~> (~InWaitOnBacking(th) \/ ~GetBacking(call[th].w))

\* C5 witness: two sleepers of the same texture were both woken by one
\* SwapBacking that attached a backing.
C5_Witness ==
    \E a \in Thread, b \in Thread :
        /\ a # b /\ pc[a] = "woken" /\ pc[b] = "woken"
        /\ call[a].w = call[b].w /\ GetBacking(call[a].w)

\* ------------------------------------------- guest <-> host synchronisation
\* one pooled guest texture of any tile mode and tiling; thread 2 attaches its
\* backing (device-only or host-mapped), thread 1 synchronises it both ways,
\* directly and through its own command buffer
InitSync ==
    \E mode \in TileModes, til \in Tilings :
        InitFrom([t \in Tex |-> IF t = 1 THEN Deferred(GuestOf(mode, 1, 1), til)
                                ELSE NoTexture],
                 Budget(MaxCalls, MaxCalls - 1, 0))

NextSync ==
    \/ Run
    \/ \E th \in Thread : SynchronizeHostStage(th)
    \/ \E th \in Thread : SynchronizeHostRecord(th)
    \/ \E th \in Thread : SynchronizeGuestRecord(th)
    \/ SynchronizeHost(1, 1)
    \/ SynchronizeGuest(1, 1)
    \/ \E c \in Cyc : SynchronizeHostWithBuffer(1, 1, c)
    \/ \E c \in Cyc : SynchronizeGuestWithBuffer(1, 1, c)
    \/ \E k \in {"raw", "mem"} : SwapBacking(2, 1, k, "General", DataC)
    \/ BeginBuffer
    \/ \E c \in Cyc : SubmitBuffer(c)

SpecSync == InitSync /\ [][NextSync]_vars

\* C6: every host-to-guest sync on the staging path has its staging buffer
\* written into guest memory exactly once, after its fence cycle completed:
\* a retired cycle made as many guest writes as it carried staging guards,
\* and a cycle that has not completed made none.
C6_WriteBackExactlyOnce ==
    \A c \in Cyc :
        guardLog[c].wrote = (IF cycles[c].state = "done" THEN guardLog[c].made ELSE 0)

\* the tiled encoding of linear host data d for texture t's guest
LinearToGuest(t, d) ==
    CASE guest[t].mode = "Block" -> CopyLinearToBlockLinear(d)
      [] guest[t].mode = "Pitch" -> CopyLinearToPitchLinear(d)
      [] guest[t].mode = "Linear" -> d

\* C7: once SynchronizeGuest has returned and its copy guards are released,
\* the guest mapping holds the tiled encoding of the host content the call
\* saw (for Linear guests, that content itself).
C7_GuestMatchesHost ==
    \A t \in Tex :
        (sync[t].valid /\ sync[t].pend = 0) => guestMem[t] = LinearToGuest(t, sync[t].snap)

\* C8: round trip: after SynchronizeHost then SynchronizeGuest, with no host
\* side change in between and every guard released, the guest bytes are the
\* ones SynchronizeHost read.
C8_RoundTrip ==
    \A t \in Tex :
        (sync[t].phase = "hg" /\ sync[t].pend = 0) => guestMem[t] = sync[t].orig

\* C8 witness: a Block guest went through the staging path both ways and its
\* guard has written guest memory back.
C8_Witness ==
    /\ sync[1].phase = "hg" /\ sync[1].pend = 0
    /\ guest[1].mode = "Block"
    /\ \E c \in Cyc : guardLog[c].made > 0 /\ guardLog[c].wrote > 0

\* ------------------------------------------------- guest descriptor checks
\* guest descriptors a caller may hand to the constructor: with the host's
\* dimensions or others, and with no, one or two mappings
GuestConfigs == {GuestOf("Block", d, n) : d \in {1, 2}, n \in {0, 1, 2}}

\* one texture, host only with a backing, or with any guest descriptor and
\* its backing still to come; the calls are those of the synchronisation
InitPre ==
    \E prof \in {HostOnly("raw", "General", 1)}
                \cup {Deferred(g, til) : g \in GuestConfigs, til \in Tilings} :
        InitFrom([t \in Tex |-> IF t = 1 THEN prof ELSE NoTexture],
                 Budget(MaxCalls, MaxCalls - 1, 0))

SpecPre == InitPre /\ [][NextSync]_vars

\* the guest descriptor the synchronisations require
GoodGuest(t) ==
    guest[t].present /\ guest[t].dimensions = dimensions[t] /\ guest[t].mappings = 1

HostSyncOps == {"SynchronizeHost", "SynchronizeHostWithBuffer"}
GuestSyncOps == {"SynchronizeGuest", "SynchronizeGuestWithBuffer"}

\* thread th's call ends in this step by throwing at its entry checks
ThrowsAtEntry(th) ==
    pc[th] = "idle" /\ pc'[th] = "idle" /\ budget'[th] # budget[th] /\ ret'[th].how = "threw"

\* C9: SynchronizeHost and SynchronizeHostWithBuffer fail with an error when
\* the guest descriptor is absent, its dimensions differ from the host's, or
\* it has not exactly one mapping: such a call never gets past its checks,
\* it ends by throwing, and the failing call changes no texture, GPU or
\* memory state.
C9_HostPreconditions ==
    /\ [](\A th \in Thread :
            /\ (pc[th] # "idle" /\ call[th].op \in HostSyncOps) => GoodGuest(call[th].t)
            /\ (ret[th].op \in HostSyncOps /\ ~GoodGuest(ret[th].t)) => ret[th].how = "threw")
    /\ [][\A th \in Thread :
            ThrowsAtEntry(th) => UNCHANGED <<texVars, gpuVars, memVars>>]_vars

\* C10: with a defined layout, SynchronizeGuest and SynchronizeGuestWithBuffer
\* fail before any wait, guest write or recording under the same conditions:
\* such a call never gets past its checks and ends by throwing.
C10_GuestPreconditions ==
    \A th \in Thread :
        /\ (pc[th] # "idle" /\ call[th].op \in GuestSyncOps) => GoodGuest(call[th].t)
        /\ (ret[th].op \in GuestSyncOps /\ ~GoodGuest(ret[th].t) /\ ret[th].how # "noop")
              => ret[th].how = "threw"

\* thread th enters op \in Ops on texture t in this step (the call either runs
\* on or ends at its entry checks)
Enters(th, Ops, t) ==
    /\ pc[th] = "idle" /\ budget'[th] # budget[th]
    /\ \/ pc'[th] # "idle" /\ call'[th].op \in Ops /\ call'[th].t = t
       \/ pc'[th] = "idle" /\ ret'[th].op \in Ops /\ ret'[th].t = t

\* C11: with a guest descriptor and the undefined layout, SynchronizeGuest and
\* SynchronizeGuestWithBuffer return at once: the call does not wait, writes
\* no guest or host memory, records and attaches nothing, and leaves layout,
\* backing and tracked cycle as they were.
C11_UndefinedLayoutNoOp ==
    [][\A th \in Thread, t \in Tex :
          (Enters(th, GuestSyncOps, t) /\ guest[t].present /\ layout[t] = "Undefined")
          => /\ pc'[th] = "idle" /\ ret'[th].how = "noop" /\ ~ret'[th].slept
             /\ UNCHANGED <<texVars, gpuVars, memVars, logVars>>]_vars

\* C11 witness: a SynchronizeGuestWithBuffer call on a texture with undefined
\* layout has returned as the no-op while its command buffer is still empty.
C11_Witness ==
    \E th \in Thread :
        /\ ret[th].op = "SynchronizeGuestWithBuffer" /\ ret[th].how = "noop"
        /\ layout[ret[th].t] = "Undefined"
        /\ \E c \in Cyc : cycles[c].state = "recording" /\ cycles[c].cmds = <<>>

\* --------------------------------------------------- copies and transitions
\* mip levels a caller may name as the base of a subresource range
MaxBase == 1

\* two host-only textures with a backing each and any pair of layouts; the
\* second may differ from the first in format or in dimensions
InitCopy ==
    \E l1 \in Layouts, l2 \in Layouts, f \in {1, 2}, d \in {1, 2} :
        /\ (f = 2 \/ d = 2) => (l1 = "General" /\ l2 = "General")
        /\ InitFrom([t \in Tex |-> IF t = 1 THEN HostOnly("raw", l1, 1)
                                   ELSE [HostOnly("raw", l2, f) EXCEPT !.dimensions = d]],
                    Budget(MaxCalls, 0, 0))

\* subresource ranges within the texture's mip levels
Ranges(t) ==
    {r \in (0..MaxBase) \X ({Remaining} \cup (1..mipLevels[t])) :
        r[1] < mipLevels[t] /\ (r[2] # Remaining => r[1] + r[2] <= mipLevels[t])}

NextCopy ==
    \/ \E th \in Thread : WaitOnBacking(th)
    \/ \E th \in Thread : WaitOnFence(th)
    \/ \E th \in Thread : CopyFromRecord(th)
    \/ \E th \in Thread : TransitionLayoutRecord(th)
    \/ \E t \in Tex, s \in Tex : \E r \in Ranges(t) : CopyFrom(1, t, s, r[1], r[2])
    \/ \E t \in Tex, l \in Layouts : TransitionLayout(1, t, l)
    \/ Complete

SpecCopy == InitCopy /\ [][NextCopy]_vars

\* the checks of CopyFrom reject this pair
CopyFromFails(t, src) ==
    \/ layout[src] = "Undefined"
    \/ dimensions[src] # dimensions[t]
    \/ format[src] # format[t]

\* this step is one of thread th's running call
StepOf(th) == pc[th] # "idle" /\ (pc'[th] # pc[th] \/ call'[th] # call[th])

\* C12: CopyFrom fails when the source layout is undefined or dimensions or
\* formats differ, and the failing call leaves everything as it was before
\* the call: no command recorded or submitted, nothing attached, and layout,
\* backing and tracked cycle of destination and source unchanged.
C12_FailedCopyChangesNothing ==
    [][\A th \in Thread :
          (StepOf(th) /\ call[th].op = "CopyFrom" /\ CopyFromFails(call[th].t, call[th].src))
          => /\ UNCHANGED <<backing, layout, cycle, gpuVars, memVars>>
             /\ pc'[th] = "idle" => ret'[th].how = "threw"]_vars

\* C12 as the code has it: a failing CopyFrom records, submits and attaches
\* nothing and leaves layout and backing of both textures unchanged; the
\* tracked cycle of either texture is unchanged or, having completed, was
\* cleared by the waits that precede the checks.
C12_FailedCopyRecordsNothing ==
    [][\A th \in Thread :
          (StepOf(th) /\ call[th].op = "CopyFrom" /\ CopyFromFails(call[th].t, call[th].src))
          => /\ UNCHANGED <<backing, layout, gpuVars, memVars>>
             /\ \A x \in Tex :
                   IF cycle'[x] = cycle[x] THEN TRUE
                   ELSE cycle'[x] = 0 /\ cycles[cycle[x]].state = "done"
             /\ pc'[th] = "idle" => ret'[th].how = "threw"]_vars

\* C12 witness: a CopyFrom has thrown on a destination whose tracked cycle
\* its wait had cleared.
C12_Witness ==
    \E th \in Thread :
        /\ ret[th].op = "CopyFrom" /\ ret[th].how = "threw"
        /\ cycle[ret[th].t] = 0
        /\ \E c \in Cyc : cycles[c].state = "done"

\* thread th's CopyFrom makes its submission in this step
CopyFromSubmits(th) ==
    pc[th] = "rec" /\ call[th].op = "CopyFrom" /\ pc'[th] = "idle" /\ ret'[th].how = "returned"

\* C13: CopyFrom restores layouts: once the commands of a successful CopyFrom
\* have executed, the source image is in its pre-call layout and the
\* destination image in its pre-call layout (transfer-destination if it was
\* undefined), and every texture's tracked layout is the layout its image is
\* really in.
C13_CopyRestoresLayouts ==
    /\ [](queue = <<>> => \A t \in Tex : imgLayout[backing[t].img] = layout[t])
    /\ [][\A th \in Thread :
            CopyFromSubmits(th)
            => /\ layout'[call[th].src] = layout[call[th].src]
               /\ layout'[call[th].t] = (IF layout[call[th].t] = "Undefined"
                                         THEN "TransferDst" ELSE layout[call[th].t])]_vars

\* mip levels copied by the commands cmds
CopiedLevels(cmds) == {cmds[k].mip : k \in {j \in DOMAIN cmds : cmds[j].op = "copy"}}
CopyCount(cmds) == Cardinality({k \in DOMAIN cmds : cmds[k].op = "copy"})

\* the mip levels a subresource range names
RangeLevels(t, base, levels) ==
    IF levels = Remaining THEN base..(mipLevels[t] - 1) ELSE base..(base + levels - 1)

\* C14: a successful CopyFrom records exactly one image copy for each mip
\* level of the requested range, base > 0 included, and for no other level;
\* with the 'remaining' sentinel the range runs up to the last mip level.
C14_OneCopyPerLevel ==
    [][\A th \in Thread :
          CopyFromSubmits(th)
          => LET c == queue'[Len(queue')]
                 want == RangeLevels(call[th].t, call[th].base, call[th].levels)
             IN /\ CopiedLevels(cycles'[c].cmds) = want
                /\ CopyCount(cycles'[c].cmds) = Cardinality(want)]_vars

\* C15: idempotent transition: TransitionLayout(L) makes one submission when
\* the layout differs from L and none otherwise, leaves the tracked layout at
\* L, and a second TransitionLayout(L) right after the first makes no
\* submission (so the two make at most one) and leaves the layout at L.
C15_IdempotentTransition ==
    [][\A th \in Thread :
          (pc[th] = "rec" /\ call[th].op = "TransitionLayout" /\ pc'[th] = "idle")
          => LET t == call[th].t
                 L == call[th].arg
             IN /\ layout'[t] = L
                /\ call[th].again => layout[t] = L
                /\ IF layout[t] # L /\ ~call[th].again
                   THEN /\ Len(queue') = Len(queue) + 1
                        /\ Cardinality({c \in Cyc : cycles'[c].state # "free"})
                              = Cardinality({c \in Cyc : cycles[c].state # "free"}) + 1
                   ELSE UNCHANGED gpuVars]_vars

\* C15 witness: the second of two equal transitions in a row has returned,
\* after the first one had made a submission.
C15_Witness ==
    \E th \in Thread :
        /\ ret[th].op = "TransitionLayout" /\ ret[th].how = "returned" /\ ret[th].again
        /\ layout[ret[th].t] = ret[th].arg
        /\ Cardinality({c \in Cyc : cycles[c].state # "free"}) = 1

\* thread th's call records or submits commands in this step
Records(th) == StepOf(th) /\ cycles' # cycles

\* C16: a texture's tracked cycle is replaced or cleared only after it has
\* completed, and a call records without a preceding wait only when it is a
\* WithBuffer overload given the very cycle the texture tracks: whenever a
\* call records, the tracked cycle is empty or is the caller's own cycle.
C16_Supersession ==
    /\ [][\A t \in Tex :
            cycle'[t] # cycle[t]
            => IF cycle[t] = 0 THEN TRUE ELSE cycles[cycle[t]].state = "done"]_vars
    /\ [][\A th \in Thread :
            (Records(th) /\ call[th].op # "SwapBacking")
            => \/ cycle[call[th].t] = 0
               \/ /\ call[th].op \in {"SynchronizeHostWithBuffer", "SynchronizeGuestWithBuffer"}
                  /\ cycle[call[th].t] = call[th].pCycle]_vars

\* C16 witness: a texture tracks a command buffer's cycle into which two
\* WithBuffer calls recorded, the second without a wait.
C16_Witness ==
    \E t \in Tex, c \in Cyc :
        /\ cycle[t] = c /\ cycles[c].state = "recording"
        /\ Cardinality({k \in DOMAIN cycles[c].cmds :
                           cycles[c].cmds[k].op \in {"b2i", "i2b"}}) >= 2

\* the host image of texture t is linearly tiled and CPU-mappable
DirectMap(t) == tiling[t] = "Linear" /\ backing[t].kind = "mem"

\* thread th's sync of kind Ops returns in this step, from after its waits
SyncReturns(th, Ops) == pc[th] = "rec" /\ call[th].op \in Ops /\ pc'[th] = "idle"

\* C17: on a linearly tiled, CPU-mappable image SynchronizeGuest and
\* SynchronizeGuestWithBuffer write guest memory before they return, attach no
\* copy guard, and no guest write follows when a cycle completes later.
C17_DirectGuestSyncImmediate ==
    /\ [](\A c \in Cyc : \A k \in DOMAIN cycles[c].attached :
             cycles[c].attached[k].kind = "guard" => cycles[c].attached[k].cmd # 0)
    /\ [][\A th \in Thread :
            (SyncReturns(th, GuestSyncOps) /\ DirectMap(call[th].t))
            => /\ guestMem'[call[th].t]
                     = LinearToGuest(call[th].t, imgData[backing[call[th].t].img])
               /\ \A c \in Cyc : Len(cycles'[c].attached) = Len(cycles[c].attached)]_vars
    /\ [][\A t \in Tex :
            (queue' # queue /\ Len(queue') < Len(queue) /\ DirectMap(t))
            => guestMem'[t] = guestMem[t]]_vars

\* C18: SynchronizeHost takes the staging path exactly when the image is
\* optimally tiled or not CPU-mappable, and then records a buffer-to-image
\* copy; on the direct path neither overload records, submits or attaches
\* anything, the tracked cycle and the layout stay, and the host image holds
\* the converted guest bytes when the call returns.
C18_HostSyncPath ==
    [][\A th \in Thread :
          SyncReturns(th, HostSyncOps)
          => LET t == call[th].t
                 i == backing[t].img
             IN IF tiling[t] = "Optimal" \/ backing[t].kind # "mem"
                THEN /\ call[th].staged
                     /\ \E c \in Cyc :
                           /\ Len(cycles'[c].cmds) > Len(cycles[c].cmds)
                           /\ \E k \in DOMAIN cycles'[c].cmds :
                                 /\ cycles'[c].cmds[k].op = "b2i"
                                 /\ cycles'[c].cmds[k].img = i
                                 /\ cycles'[c].cmds[k].data = call[th].data
                     /\ imgData' = imgData
                ELSE /\ UNCHANGED <<gpuVars, layout, cycle>>
                     /\ imgData'[i] = GuestToLinear(t, guestMem[t])]_vars

\* C18 witness: a SynchronizeHostWithBuffer on a linear, CPU-mappable image
\* has returned and the caller's command buffer is still empty.
C18_Witness ==
    \E th \in Thread :
        /\ ret[th].op = "SynchronizeHostWithBuffer" /\ ret[th].how = "returned"
        /\ DirectMap(ret[th].t)
        /\ imgData[backing[ret[th].t].img] = GuestToLinear(ret[th].t, guestMem[ret[th].t])
        /\ \E c \in Cyc : cycles[c].state = "recording" /\ cycles[c].cmds = <<>>
                          /\ cycles[c].attached = <<>>

\* ------------------------------------------------------------ construction
\* the part the allocating constructors share: members initialised, a fresh
\* image allocated in layout lay0 (memory::Image in both tilings, mapped when
\* linear), then TransitionLayout(lay1) on the new object, which has nothing
\* to wait for and submits one barrier if the layouts differ
Construct(t, g, dims, fmt, til, mips, v, lay0, lay1) ==
    /\ ~alive[t] /\ variant[t] = 0
    /\ FreeImgs # {}
    /\ lay1 # lay0 => FreeCycles # {}
    /\ LET i == Min(FreeImgs)
       IN /\ backing' = [backing EXCEPT ![t] = [kind |-> "mem", img |-> i]]
          /\ imgState' = [imgState EXCEPT ![i] = "live"]
          /\ imgLayout' = [imgLayout EXCEPT ![i] = lay0]
          /\ IF lay1 # lay0
             THEN LET c == Min(FreeCycles)
                  IN /\ Record(c, TRUE, <<Barrier(i, lay0, lay1)>>, <<>>)
                     /\ cycle' = [cycle EXCEPT ![t] = c]
             ELSE UNCHANGED <<cycles, queue, cycle>>
    /\ layout' = [layout EXCEPT ![t] = lay1]
    /\ alive' = [alive EXCEPT ![t] = TRUE]
    /\ held' = [held EXCEPT ![t] = TRUE]
    /\ guest' = [guest EXCEPT ![t] = g]
    /\ dimensions' = [dimensions EXCEPT ![t] = dims]
    /\ format' = [format EXCEPT ![t] = fmt]
    /\ tiling' = [tiling EXCEPT ![t] = til]
    /\ mipLevels' = [mipLevels EXCEPT ![t] = mips]
    /\ variant' = [variant EXCEPT ![t] = v]
    /\ UNCHANGED <<mutex, imgData, guestMem, thrVars, logVars, otherVars>>

\* a guest-only constructor that always asks for optimal tiling
Construct3Optimal(t, g) ==
    Construct(t, g, g.dimensions, g.format, "Optimal", 1, 3, "Undefined", "General")

\* Texture(GPU &, GuestTexture): dimensions and format from the guest, tiling
\* from the guest tile mode, one mip level, then TransitionLayout(eGeneral)
Construct3(t, g) ==
    Construct(t, g, g.dimensions, g.format,
              IF g.mode = "Block" THEN "Optimal" ELSE "Linear", 1, 3, "Undefined", "General")

\* a constructor that leaves the backing to be attached later
Construct4NoBacking(t, initialLayout, til) ==
    /\ ~alive[t] /\ variant[t] = 0
    /\ layout' = [layout EXCEPT ![t] = IF initialLayout = "Preinitialized"
                                       THEN "Preinitialized" ELSE "Undefined"]
    /\ alive' = [alive EXCEPT ![t] = TRUE]
    /\ held' = [held EXCEPT ![t] = TRUE]
    /\ tiling' = [tiling EXCEPT ![t] = til]
    /\ variant' = [variant EXCEPT ![t] = 4]
    /\ UNCHANGED <<backing, cycle, mutex, guest, dimensions, format, mipLevels,
                   gpuVars, memVars, thrVars, logVars, otherVars>>

\* Texture(GPU &, dimensions, format, initialLayout, usage, tiling, ...): no
\* guest; the layout starts as preinitialized or undefined, the image is
\* allocated, and TransitionLayout(initialLayout) runs if that differs
Construct4(t, initialLayout, til) ==
    Construct(t, NoGuest, 1, 1, til, 2, 4,
              IF initialLayout = "Preinitialized" THEN "Preinitialized" ELSE "Undefined",
              initialLayout)

\* guest descriptors of every tile mode, size and format, with one mapping
NewGuests ==
    {[GuestOf(m, d, 1) EXCEPT !.format = f] : m \in TileModes, d \in {1, 2}, f \in {1, 2}}

\* no texture yet: one is constructed from a guest alone or from explicit
\* parameters, then used and given another backing
InitNew == InitFrom([t \in Tex |-> NoTexture], Budget(MaxCalls, 1, 0))

NextNew ==
    \/ \E g \in NewGuests : Construct3(1, g)
    \/ \E l \in Layouts \cup {"Preinitialized"}, til \in Tilings : Construct4(1, l, til)
    \/ \E th \in Thread : WaitOnBacking(th)
    \/ \E th \in Thread : WaitOnFence(th)
    \/ \E th \in Thread : SynchronizeHostStage(th)
    \/ \E th \in Thread : SynchronizeHostRecord(th)
    \/ \E th \in Thread : SynchronizeGuestRecord(th)
    \/ \E th \in Thread : TransitionLayoutRecord(th)
    \/ \E th \in Thread : SwapBackingAssign(th)
    \/ \E th \in Thread : SwapBackingNotify(th)
    \/ SynchronizeHost(1, 1)
    \/ SynchronizeGuest(1, 1)
    \/ \E l \in {"General", "TransferSrc"} : TransitionLayout(1, 1, l)
    \/ \E k \in {"raw", "mem"} : SwapBacking(2, 1, k, "General", DataC)
    \/ Complete

SpecNew == InitNew /\ [][NextNew]_vars

\* no SwapBacking has replaced an image yet
NoSwapYet == \A i \in Img : imgState[i] # "swapped"

\* texture t is constructed by variant v in this step
Constructs(t, v) == variant[t] = 0 /\ variant'[t] = v

\* C19: construction variant 4 yields a texture without backing: until a
\* SwapBacking, its backing is absent and no sync, copy or transition call on
\* it returns.
C19_Variant4Deferred ==
    \A t \in Tex :
        (variant[t] = 4 /\ alive[t] /\ NoSwapYet)
        => /\ ~GetBacking(t)
           /\ \A th \in Thread :
                 ~(ret[th].t = t /\ ret[th].op \in SyncOps /\ ret[th].how = "returned")

\* C19 as the code has it: construction variant 4 allocates the image itself
\* (no guest descriptor), makes one transition submission exactly when the
\* requested initial layout is neither undefined nor preinitialized, and no
\* call on the texture ever waits for a backing.
C19_Variant4Allocates ==
    /\ [](\A t \in Tex :
            (variant[t] = 4 /\ alive[t] /\ NoSwapYet)
            => /\ GetBacking(t) /\ ~guest[t].present
               /\ \A th \in Thread :
                     pc[th] \in {"wait", "sleep", "woken"} => call[th].w # t)
    /\ [][\A t \in Tex :
            Constructs(t, 4)
            => /\ GetBacking(t)'
               /\ IF layout'[t] \in {"Undefined", "Preinitialized"}
                  THEN UNCHANGED gpuVars /\ cycle'[t] = 0
                  ELSE /\ Len(queue') = Len(queue) + 1
                       /\ cycle'[t] = queue'[Len(queue')]]_vars

\* C19 witness: a TransitionLayout on a variant-4 texture has returned
\* without having waited for a backing, before any SwapBacking.
C19_Witness ==
    \E th \in Thread :
        /\ ret[th].op = "TransitionLayout" /\ ret[th].how = "returned" /\ ~ret[th].slept
        /\ ret[th].t # 0 /\ variant[ret[th].t] = 4 /\ NoSwapYet

\* what construction variant 3 leaves, given the tiling it is to choose
Variant3Leaves(t, til) ==
    /\ GetBacking(t)'
    /\ dimensions'[t] = guest'[t].dimensions
    /\ format'[t] = guest'[t].format
    /\ tiling'[t] = til
    /\ layout'[t] = "General"
    /\ Len(queue') = Len(queue) + 1
    /\ cycle'[t] = queue'[Len(queue')]
    /\ cycles'[cycle'[t]].cmds = <<Barrier(backing'[t].img, "Undefined", "General")>>

\* C20: construction variant 3 leaves the backing present, dimensions and
\* format the guest's, the tiling optimal for the tiled guest modes and linear
\* only for the Linear mode, the layout general, and exactly one submission,
\* the undefined-to-general transition, which is the tracked cycle.
C20_Variant3 ==
    [][\A t \in Tex :
          Constructs(t, 3)
          => Variant3Leaves(t, IF guest'[t].mode = "Linear" THEN "Linear" ELSE "Optimal")]_vars

\* C20 as the code has it: the tiling is optimal for Block guests and linear
\* for Pitch and Linear guests; the rest as above.
C20_Variant3BlockOptimal ==
    [][\A t \in Tex :
          Constructs(t, 3)
          => Variant3Leaves(t, IF guest'[t].mode = "Block" THEN "Optimal" ELSE "Linear")]_vars

\* C20 witness: a Pitch guest's texture was constructed with linear tiling and
\* tracks its transition to the general layout.
C20_Witness ==
    /\ variant[1] = 3 /\ guest[1].mode = "Pitch" /\ tiling[1] = "Linear"
    /\ layout[1] = "General" /\ cycle[1] # 0 /\ GetBacking(1)

\* ------------------------------------------------------------- TextureView
\* vk::ImageType of a texture's dimensions (Dimensions::GetType): the model's
\* dimension values 1, 2 and 3 stand for a 2D, a 3D and a 1D extent
GetType(dims) == CASE dims = 1 -> "e2D" [] dims = 2 -> "e3D" [] OTHER -> "e1D"

\* a selection that gives a layered 3D image a 2D-array view
ViewTypeArray3D(type, layerCount) ==
    CASE type = "e1D" -> IF layerCount > 1 THEN "e1DArray" ELSE "e1D"
      [] type = "e2D" -> IF layerCount > 1 THEN "e2DArray" ELSE "e2D"
      [] type = "e3D" -> IF layerCount > 1 THEN "e2DArray" ELSE "e3D"

\* the viewType lambda of TextureView::GetView
ViewType(type, layerCount) ==
    CASE type = "e1D" -> IF layerCount > 1 THEN "e1DArray" ELSE "e1D"
      [] type = "e2D" -> IF layerCount > 1 THEN "e2DArray" ELSE "e2D"
      [] type = "e3D" -> "e3D"

\* a view description that leaves the component mapping out
ViewCreateInfoNoMapping(v) ==
    LET t == viewObj[v].backing
    IN [image |-> backing[t].img,
        viewType |-> ViewType(GetType(dimensions[t]), viewObj[v].layerCount),
        format |-> IF viewObj[v].format # 0 THEN viewObj[v].format ELSE format[t],
        components |-> "identity",
        layerCount |-> viewObj[v].layerCount]

\* the vk::ImageViewCreateInfo TextureView::GetView builds; the subresource
\* range is represented by its layer count
ViewCreateInfo(v) ==
    LET t == viewObj[v].backing
    IN [image |-> backing[t].img,
        viewType |-> ViewType(GetType(dimensions[t]), viewObj[v].layerCount),
        format |-> IF viewObj[v].format # 0 THEN viewObj[v].format ELSE format[t],
        components |-> viewObj[v].mapping,
        layerCount |-> viewObj[v].layerCount]

\* positions in texture t's cache whose description is info
Cached(t, info) == {k \in DOMAIN views[t] : views[t][k].info = info}

\* the handle of a newly created vk::raii::ImageView: distinct from every
\* handle in the cache it joins
NewView(t) == [t |-> t, n |-> Len(views[t]) + 1]

\* a GetView that creates a view without searching the cache
GetViewNoSearch(v) ==
    /\ viewObj[v].backing # 0
    /\ LET t == viewObj[v].backing
           createInfo == ViewCreateInfo(v)
       IN /\ GetBacking(t) /\ mutex[t] = 0
          /\ views' = [views EXCEPT ![t] =
                         Append(@, [info |-> createInfo, handle |-> NewView(t)])]
          /\ got' = [got EXCEPT ![v] = [handle |-> NewView(t),
                                        image |-> createInfo.image, hit |-> FALSE]]
    /\ UNCHANGED <<texVars, config, gpuVars, memVars, thrVars, logVars, viewObj, shmVars>>

\* TextureView::GetView on the view object v of a texture that has its image
\* and is not locked by a running call: the first cache entry with an equal
\* description is returned, else one is created and appended.  (The member
\* 'view' tested first is never assigned in this file.)
GetView(v) ==
    /\ viewObj[v].backing # 0
    /\ LET t == viewObj[v].backing
           createInfo == ViewCreateInfo(v)
           hit == Cached(t, createInfo)
       IN /\ GetBacking(t) /\ mutex[t] = 0
          /\ IF hit # {}
             THEN /\ views' = views
                  /\ got' = [got EXCEPT ![v] = [handle |-> views[t][Min(hit)].handle,
                                                image |-> createInfo.image, hit |-> TRUE]]
             ELSE /\ views' = [views EXCEPT ![t] =
                                 Append(@, [info |-> createInfo, handle |-> NewView(t)])]
                  /\ got' = [got EXCEPT ![v] = [handle |-> NewView(t),
                                                image |-> createInfo.image, hit |-> FALSE]]
    /\ UNCHANGED <<texVars, config, gpuVars, memVars, thrVars, logVars, viewObj, shmVars>>

\* the owner of TextureView v drops it; the handles it got stay in the cache
ReleaseView(v) ==
    /\ viewObj[v].backing # 0
    /\ viewObj' = [viewObj EXCEPT ![v] = NoView]
    /\ UNCHANGED <<texVars, config, gpuVars, memVars, thrVars, logVars, views, got, shmVars>>

\* TextureView::TextureView for the three view objects of texture t: two made
\* with the same range, format override and mapping, a third that differs
\* from them in the mapping alone
ViewsOf(t, layers, fmt) ==
    /\ views = [x \in Tex |-> <<>>]
    /\ viewObj = [v \in View |->
                    [backing |-> t, layerCount |-> layers, format |-> fmt,
                     mapping |-> IF v = 3 THEN "swizzled" ELSE "identity"]]
    /\ got = [v \in View |-> NoGot]

\* a pooled guest texture and a host-only render target, one of them with
\* views; thread 1 makes one call, thread 2 swaps one backing
InitView ==
    \E t \in Tex :
        /\ InitTextures([x \in Tex |-> IF x = 1 THEN Deferred(GuestOf("Block", 1, 1), "Optimal")
                                       ELSE HostOnly("raw", "General", 1)],
                        Budget(1, 1, 0))
        /\ ViewsOf(t, 1, 0)
        /\ NoSharedMemory

NextView ==
    \/ Run
    \/ \E v \in View : GetView(v)
    \/ \E v \in View : ReleaseView(v)
    \/ \E th \in Thread : SynchronizeHostStage(th)
    \/ \E th \in Thread : SynchronizeHostRecord(th)
    \/ \E th \in Thread : SynchronizeGuestRecord(th)
    \/ \E th \in Thread : CopyFromRecord(th)
    \/ SynchronizeHost(1, 1)
    \/ SynchronizeGuest(1, 1)
    \/ \E t \in Tex, s \in Tex : CopyFrom(1, t, s, 0, Remaining)
    \/ \E t \in Tex, k \in {"raw", "mem"} : SwapBacking(2, t, k, "General", DataC)
    \/ \E t \in Tex : ReleaseOwner(t)
    \/ \E t \in Tex : Destroy(t)

SpecView == InitView /\ [][NextView]_vars

\* the cache entry e answers what view object v asks of its texture's current
\* image: same image, range, format (the override, else the texture's) and
\* component mapping
SameRequest(e, v) ==
    LET t == viewObj[v].backing
    IN /\ e.info.image = backing[t].img
       /\ e.info.layerCount = viewObj[v].layerCount
       /\ e.info.format = (IF viewObj[v].format # 0 THEN viewObj[v].format ELSE format[t])
       /\ e.info.components = viewObj[v].mapping

\* view objects a and b of one texture were made with identical inputs
SameInputs(a, b) ==
    /\ viewObj[a].backing # 0 /\ viewObj[a] = viewObj[b]

\* view object v's GetView returns something new in this step
Gets(v) == got'[v] # got[v]

\* C21: view cache identity: with the backing not swapped in between, GetView
\* calls with identical range, format override and mapping (on one or on two
\* TextureView objects) return the same handle and the cache holds one entry
\* for them; a GetView whose mapping differs from every entry appends exactly
\* one entry and leaves every existing entry, its handle included, as it was.
C21_ViewCacheIdentity ==
    /\ [](\A a \in View, b \in View :
            (SameInputs(a, b) /\ got[a].image # 0 /\ got[a].image = got[b].image)
            => /\ got[a].handle = got[b].handle
               /\ Cardinality({k \in DOMAIN views[viewObj[a].backing] :
                                  SameRequest(views[viewObj[a].backing][k], a)}) <= 1)
    /\ [][\A v \in View :
            Gets(v)
            => LET t == viewObj[v].backing
                   same == {k \in DOMAIN views[t] : SameRequest(views[t][k], v)}
               IN IF same # {}
                  THEN views' = views /\ \A k \in same : got'[v].handle = views[t][k].handle
                  ELSE /\ Len(views'[t]) = Len(views[t]) + 1
                       /\ SubSeq(views'[t], 1, Len(views[t])) = views[t]
                       /\ views'[t][Len(views'[t])].handle = got'[v].handle
                       /\ \A k \in DOMAIN views[t] :
                             views[t][k].handle # got'[v].handle
                       /\ \A x \in Tex \ {t} : views'[x] = views[x]]_vars

\* C21 witness: two TextureViews with identical inputs got the same handle, a
\* third with another mapping got a second one, and the cache has two entries.
C21_Witness ==
    /\ SameInputs(1, 2) /\ viewObj[3].backing = viewObj[1].backing
    /\ got[1].handle # NoHandle /\ got[1].handle = got[2].handle
    /\ got[3].handle # NoHandle /\ got[3].handle # got[1].handle
    /\ got[1].image = got[3].image /\ got[1].image = got[2].image
    /\ Len(views[viewObj[1].backing]) = 2

\* ------------------------------------------------ CPU access to mapped images
\* thread th's sync converts straight into or out of the mapped host image in
\* this step (its direct path)
DirectAccess(th) ==
    /\ pc[th] = "rec" /\ pc'[th] = "idle"
    /\ \/ call[th].op \in HostSyncOps /\ ~call[th].staged
       \/ call[th].op \in GuestSyncOps /\ ~NeedsStaging(call[th].t)

\* the cycles texture t tracked when thread th's call began and tracks now
TrackedCycles(th) == {call[th].tracked, cycle[call[th].t]} \ {0}

\* C22 as claimed: whenever a sync touches the CPU-mapped host image, no cycle
\* tracked for the texture is incomplete, the WithBuffer overloads given the
\* tracked cycle included.
C22_NoIncompleteTrackedCycle ==
    [][\A th \in Thread :
          DirectAccess(th) => \A c \in TrackedCycles(th) : cycles[c].state = "done"]_vars

\* C22 as the code has it: whenever a sync touches the CPU-mapped host image,
\* every cycle tracked for the texture has completed, except the caller's own
\* cycle when a WithBuffer overload is given the cycle that is tracked: that
\* cycle is not waited for; it is still being recorded and holds no command on
\* the texture's image.
C22_OnlyOwnCycleIncomplete ==
    [][\A th \in Thread :
          DirectAccess(th)
          => \A c \in TrackedCycles(th) :
                \/ cycles[c].state = "done"
                \/ /\ c = call[th].pCycle
                   /\ cycles[c].state = "recording"
                   /\ backing[call[th].t].img \notin Touched(c)]_vars

\* C22 witness: SynchronizeHostWithBuffer has written the mapped image of a
\* texture that tracks the caller's cycle, which is still being recorded.
C22_Witness ==
    \E th \in Thread :
        /\ ret[th].op = "SynchronizeHostWithBuffer" /\ ret[th].how = "returned"
        /\ DirectMap(ret[th].t)
        /\ cycle[ret[th].t] # 0 /\ cycles[cycle[ret[th].t]].state = "recording"

\* ------------------------------------------------------------ layout barriers
\* the layout barriers among the commands of cycle c
BarriersOf(c) == {k \in DOMAIN cycles[c].cmds : cycles[c].cmds[k].op = "barrier"}

\* C23: no redundant barriers: no operation ever records a layout barrier
\* whose old layout equals its new layout; in particular CopyFrom records no
\* restore barrier for a source that was already in transfer-source layout,
\* whatever the destination's layout.
C23_NoRedundantBarrier ==
    \A c \in Cyc : \A k \in BarriersOf(c) : cycles[c].cmds[k].old # cycles[c].cmds[k].new

\* everything recorded has been submitted and has completed, no call is running
Quiescent ==
    /\ queue = <<>>
    /\ \A c \in Cyc : cycles[c].state \in {"free", "done"}
    /\ \A th \in Thread : pc[th] = "idle"

\* the GPU retires the oldest submitted cycle in this step
Retires == queue # <<>> /\ queue' = Tail(queue)

\* C24: layout tracking: once every submitted cycle has completed, each
\* texture's tracked layout is the layout the barriers recorded against its
\* image have left it in, and when a barrier executes, its old layout is the
\* layout the image is in (or the undefined layout, which discards content).
C24_LayoutTracked ==
    /\ [](Quiescent => \A t \in Tex :
             (alive[t] /\ GetBacking(t)) => imgLayout[backing[t].img] = layout[t])
    /\ [][Retires
          => LET cmds == cycles[Head(queue)].cmds
             IN \A k \in BarriersOf(Head(queue)) :
                   cmds[k].old \in {"Undefined",
                                    Exec(cmds, k - 1, imgData, imgLayout).l[cmds[k].img]}]_vars

\* ------------------------------------------------------ staging buffer lifetime
\* cycle c owns the staging buffer of its k-th command and the texture whose
\* image that command copies: both attached, or a copy guard holding both
OwnsStaging(c, k) ==
    LET att == cycles[c].attached
        i == cycles[c].cmds[k].img
    IN \/ /\ \E a \in DOMAIN att : att[a] = AttStaging(k)
          /\ \E a \in DOMAIN att : att[a].kind = "tex" /\ backing[att[a].t].img = i
       \/ \E a \in DOMAIN att :
             att[a].kind = "guard" /\ att[a].cmd = k /\ backing[att[a].t].img = i

\* thread th's sync returns in this step having used a staging buffer
StagedReturn(th) ==
    \/ SyncReturns(th, HostSyncOps) /\ call[th].staged
    \/ SyncReturns(th, GuestSyncOps) /\ NeedsStaging(call[th].t)

InitType ==
    \E d \in {1, 2, 3}, f \in {1, 2}, layers \in LayerCounts, fmt \in {0, 1, 2} :
        /\ InitTextures([x \in Tex |-> IF x = 1
                                       THEN [HostOnly("raw", "General", f) EXCEPT !.dimensions = d]
                                       ELSE NoTexture],
                        Budget(0, 1, 0))
        /\ ViewsOf(1, layers, fmt)
        /\ NoSharedMemory

NextType ==
    \/ \E v \in View : GetView(v)
    \/ \E k \in {"raw", "mem"} : SwapBacking(2, 1, k, "General", DataC)
    \/ \E th \in Thread : WaitOnFence(th)
    \/ \E th \in Thread : SwapBackingAssign(th)
    \/ \E th \in Thread : SwapBackingNotify(th)

SpecType == InitType /\ [][NextType]_vars

\* the view type the selection rule gives an image type and a layer count
ExpectedViewType(type, layerCount) ==
    IF type = "e3D" THEN "e3D"
    ELSE IF type = "e2D" THEN (IF layerCount > 1 THEN "e2DArray" ELSE "e2D")
    ELSE (IF layerCount > 1 THEN "e1DArray" ELSE "e1D")

\* C26: view type selection: the view type in a view description depends only
\* on the backing image's type and the requested layer count (1D: 1D-array if
\* layer count > 1 else 1D; 2D: 2D-array if layer count > 1 else 2D; 3D: 3D for
\* every layer count), and the format is the override when one is given and
\* the backing format otherwise.
C26_ViewTypeSelection ==
    /\ [](\A t \in Tex : \A k \in DOMAIN views[t] :
            views[t][k].info.viewType
               = ExpectedViewType(GetType(dimensions[t]), views[t][k].info.layerCount))
    /\ [][\A v \in View :
            (Gets(v) /\ ~got'[v].hit)
            => LET t == viewObj[v].backing
                   e == views'[t][Len(views'[t])]
               IN /\ e.handle = got'[v].handle
                  /\ e.info.layerCount = viewObj[v].layerCount
                  /\ e.info.format = (IF viewObj[v].format # 0
                                      THEN viewObj[v].format ELSE format[t])]_vars

\* C26 witness: a 3D image has a 3D view for a range of more than one layer,
\* with a format override that differs from the backing format.
C26_Witness ==
    \E t \in Tex : \E k \in DOMAIN views[t] :
        /\ GetType(dimensions[t]) = "e3D" /\ views[t][k].info.viewType = "e3D"
        /\ views[t][k].info.layerCount > 1
        /\ views[t][k].info.format # format[t]

\* ------------------------------------------------------- view cache invariant
\* C27: view cache invariant: no two entries of a texture's view cache have
\* equal descriptions; the cache changes only by GetView appending one entry
\* or by the destruction of the texture, so SwapBacking, CopyFrom and the
\* syncs neither remove nor modify an entry.
C27_ViewCacheInvariant ==
    /\ [](\A t \in Tex : \A j \in DOMAIN views[t], k \in DOMAIN views[t] :
            views[t][j].info = views[t][k].info => j = k)
    /\ [][\A t \in Tex :
            views'[t] # views[t]
            => \/ alive[t] /\ ~alive'[t] /\ views'[t] = <<>>
               \/ /\ Len(views'[t]) = Len(views[t]) + 1
                  /\ SubSeq(views'[t], 1, Len(views[t])) = views[t]
                  /\ \E v \in View : Gets(v) /\ viewObj[v].backing = t
                  /\ UNCHANGED <<texVars, gpuVars, memVars>>]_vars

\* C27 witness: a cache entry made for an image that SwapBacking has replaced
\* since is still in the cache, next to an entry for the new image.
C27_Witness ==
    \E t \in Tex :
        /\ Len(views[t]) >= 2
        /\ imgState[views[t][1].info.image] = "swapped"
        /\ \E k \in DOMAIN views[t] : views[t][k].info.image = backing[t].img

\* ------------------------------------------------- host content under a sync
\* the copy guards among the attachments of cycle c that own a staging buffer
StagingGuards(c) ==
    {a \in DOMAIN cycles[c].attached :
        cycles[c].attached[a].kind = "guard" /\ cycles[c].attached[a].cmd > 0}

\* C28: SynchronizeGuest does not modify host content: for every tile mode and
\* on both paths, the host buffer handed to CopyToGuest (the mapped host image,
\* or the staging buffer) holds the same bytes after the call, or after the
\* copy guard's release, as before; only guest memory is written.
C28_HostContentKept ==
    /\ [][\A th \in Thread :
            (SyncReturns(th, GuestSyncOps) /\ ~NeedsStaging(call[th].t))
            => imgData' = imgData]_vars
    /\ [][Retires
          => LET c == Head(queue)
                 cmds == cycles[c].cmds
             IN /\ imgData' = Exec(cmds, Len(cmds), imgData, imgLayout).d
                /\ \A a \in StagingGuards(c) :
                      LET x == cycles[c].attached[a]
                          buf == StagingAfter(cmds, x.cmd, imgData, imgLayout)
                      IN CopyToGuest(x.t, buf, guestMem[x.t]).host = buf]_vars

\* ------------------------------------------------------------ KSharedMemory
\* pointers and sizes a caller may pass, page-aligned or not
Addrs == 0..(PageSize * (MaxPage + 2))
Sizes == 0..(PageSize * MaxPage)
Permissions == {"r", "rw"}

\* state.process->memory.base.IsInside: the guest address space is the pages
\* 1..MaxPage
IsInside(p) == p >= PageSize /\ p < PageSize * (MaxPage + 1)

\* util::IsPageAligned
IsPageAligned(x) == x % PageSize = 0

\* MemoryInfo::Valid of a (ptr, size) pair
Valid(m) == m.ptr # 0 /\ m.size # 0

\* the guest pages of the range [ptr, ptr + size)
PagesOf(ptr, size) ==
    {p \in Pages : PageSize * p >= ptr /\ PageSize * (p + 1) <= ptr + size}

\* memory.InsertChunk(ChunkDescriptor{ptr, size, permission, state})
InsertChunk(ptr, size, st, permission) ==
    [p \in Pages |-> IF p \in PagesOf(ptr, size)
                     THEN [state |-> st, permission |-> permission] ELSE chunks[p]]

\* the outcomes of an mmap of size bytes: a mapping of no bytes always fails
MmapOutcomes(size) == IF size = 0 THEN {FALSE} ELSE BOOLEAN

ShmReturn(op, ptr, size, how) ==
    shmRet' = [op |-> op, ptr |-> ptr, size |-> size, how |-> how]

\* a Map that does not look at the current guest mapping
MapNoValidCheck(ptr, size, permission) ==
    /\ IF \/ ~IsInside(ptr) \/ ~IsInside(ptr + size)
          \/ ~IsPageAligned(ptr) \/ ~IsPageAligned(size)
       THEN /\ ShmReturn("Map", ptr, size, "threw")
            /\ UNCHANGED <<shmGuest, chunks>>
       ELSE \E ok \in MmapOutcomes(size) :
               IF ok
               THEN /\ shmGuest' = [ptr |-> ptr, size |-> size]
                    /\ chunks' = InsertChunk(ptr, size, "Shared", permission)
                    /\ ShmReturn("Map", ptr, size, "returned")
               ELSE /\ shmGuest' = [shmGuest EXCEPT !.ptr = MapFailed]
                    /\ chunks' = chunks
                    /\ ShmReturn("Map", ptr, size, "threw")
    /\ UNCHANGED <<texVars, config, gpuVars, memVars, thrVars, logVars, viewVars>>

\* KSharedMemory::Map: the three checks, then mmap at ptr (MAP_FIXED, ptr is
\* not null here), whose result is stored in guest.ptr before it is tested,
\* then the chunk of the range is recorded with the object's memory state
Map(ptr, size, permission) ==
    /\ IF \/ ~IsInside(ptr) \/ ~IsInside(ptr + size)
          \/ ~IsPageAligned(ptr) \/ ~IsPageAligned(size)
          \/ Valid(shmGuest)
       THEN /\ ShmReturn("Map", ptr, size, "threw")
            /\ UNCHANGED <<shmGuest, chunks>>
       ELSE \E ok \in MmapOutcomes(size) :
               IF ok
               THEN /\ shmGuest' = [ptr |-> ptr, size |-> size]
                    /\ chunks' = InsertChunk(ptr, size, "Shared", permission)
                    /\ ShmReturn("Map", ptr, size, "returned")
               ELSE /\ shmGuest' = [shmGuest EXCEPT !.ptr = MapFailed]
                    /\ chunks' = chunks
                    /\ ShmReturn("Map", ptr, size, "threw")
    /\ UNCHANGED <<texVars, config, gpuVars, memVars, thrVars, logVars, viewVars>>

\* KSharedMemory::Unmap: the checks, the mmap of PROT_NONE over the requested
\* range, then guest = {} and the requested range recorded as Unmapped
Unmap(ptr, size) ==
    /\ IF \/ ~IsInside(ptr) \/ ~IsInside(ptr + size)
          \/ ~IsPageAligned(ptr) \/ ~IsPageAligned(size)
          \/ (shmGuest.ptr # ptr /\ shmGuest.size # size)
       THEN /\ ShmReturn("Unmap", ptr, size, "threw")
            /\ UNCHANGED <<shmGuest, chunks>>
       ELSE \E ok \in MmapOutcomes(size) :
               IF ok
               THEN /\ shmGuest' = [ptr |-> 0, size |-> 0]
                    /\ chunks' = InsertChunk(ptr, size, "Unmapped", "none")
                    /\ ShmReturn("Unmap", ptr, size, "returned")
               ELSE /\ ShmReturn("Unmap", ptr, size, "threw")
                    /\ UNCHANGED <<shmGuest, chunks>>
    /\ UNCHANGED <<texVars, config, gpuVars, memVars, thrVars, logVars, viewVars>>

\* one KSharedMemory object and the guest address space; no texture
InitShm == InitFrom([t \in Tex |-> NoTexture], Budget(0, 0, 0))

NextShm ==
    \/ \E ptr \in Addrs, size \in Sizes, permission \in Permissions : Map(ptr, size, permission)
    \/ \E ptr \in Addrs, size \in Sizes : Unmap(ptr, size)

SpecShm == InitShm /\ [][NextShm]_vars

\* this step is a call of op (a call that repeats the previous one with the
\* same outcome and changes nothing is not told apart from no step)
ShmCalls(op) == shmRet'.op = op /\ shmVars' # shmVars

\* C29: at most one guest mapping: a Map issued while a guest mapping is valid
\* fails and leaves the guest mapping and the chunks unchanged; a Map succeeds
\* only when no guest mapping is valid (and then the mapping is the requested
\* range); after a successful Unmap the guest mapping is invalid and the
\* requested range is recorded as Unmapped.
C29_SingleGuestMapping ==
    /\ [][ShmCalls("Map")
          => /\ Valid(shmGuest)
                => shmRet'.how = "threw" /\ UNCHANGED <<shmGuest, chunks>>
             /\ shmRet'.how = "returned"
                => /\ ~Valid(shmGuest)
                   /\ shmGuest' = [ptr |-> shmRet'.ptr, size |-> shmRet'.size]
                   /\ Valid(shmGuest')]_vars
    /\ [][(ShmCalls("Unmap") /\ shmRet'.how = "returned")
          => /\ ~Valid(shmGuest')
             /\ \A p \in PagesOf(shmRet'.ptr, shmRet'.size) :
                   chunks'[p].state = "Unmapped"]_vars

\* C29 witness: a Map of a well-formed range other than the mapped one has
\* failed because a guest mapping is valid, and the mapping is still there.
C29_Witness ==
    /\ shmRet.op = "Map" /\ shmRet.how = "threw"
    /\ IsInside(shmRet.ptr) /\ IsInside(shmRet.ptr + shmRet.size)
    /\ IsPageAligned(shmRet.ptr) /\ IsPageAligned(shmRet.size) /\ shmRet.size # 0
    /\ Valid(shmGuest) /\ shmGuest.ptr # shmRet.ptr
    /\ \A p \in PagesOf(shmGuest.ptr, shmGuest.size) : chunks[p].state = "Shared"

\* C30: partial unmapping is not supported: Unmap(ptr, size) fails and leaves
\* the guest mapping and the chunks unchanged whenever the requested range
\* differs from the guest mapping in its pointer or in its size; the guest
\* mapping is cleared only when both are equal.
C30_NoPartialUnmap ==
    [][ShmCalls("Unmap")
       => /\ (shmRet'.ptr # shmGuest.ptr \/ shmRet'.size # shmGuest.size)
             => shmRet'.how = "threw" /\ UNCHANGED <<shmGuest, chunks>>
          /\ shmGuest' # shmGuest
             => shmRet'.ptr = shmGuest.ptr /\ shmRet'.size = shmGuest.size]_vars

====
